---- MODULE Spec2Model ----
(***************************************************************************)
(* State-machine model of the likeli-contracts program                     *)
(* (programs/likeli-contracts/src/lib.rs): binary markets, the limit order *)
(* book, multi-choice markets with NegRisk rebalancing, and claims.        *)
(*                                                                         *)
(* Every instruction is one action.  An instruction that returns an error  *)
(* (or panics on a failed unwrap) leaves every account as it was: only the *)
(* record `last`, which logs the instruction, its arguments and its        *)
(* result, changes.                                                        *)
(***************************************************************************)
EXTENDS Integers, Sequences, FiniteSets, TLC

VARIABLES
    now,            \* Clock::get().unix_timestamp
    market,         \* the binary Market account
    user_position,  \* the trader's UserPosition account of the binary market
    orders,         \* LimitOrder accounts, by account key
    orderbook,      \* the Orderbook account of the binary market
    mm,             \* the MultiMarket account
    answers,        \* Answer accounts of the multi market, by index
    position,       \* the trader's MultiPosition account
    tokens,         \* collateral balances: the multi market's vault, the trader
    last            \* log of the last instruction: name, arguments, result

binVars   == <<market, user_position>>
bookVars  == <<orders, orderbook>>
multiVars == <<mm, answers, position, tokens>>
vars      == <<now, market, user_position, orders, orderbook, mm, answers, position, tokens, last>>

-----------------------------------------------------------------------------
(* Program constants *)

BPS == 10000
MinLiquidity == 100
MaxQuestionLen == 200
MaxTotalFeeBps == 1000
BookCapacity == 100
MaxAnswers == 10
MinAnswers == 2
RoundingWindow == 100
TradeDivisor == 4

(* Bounds of the model *)

MaxTime == 1
MaxVolume == 300
MaxOrders == 2
MaxCands == 2
MaxAccounts == 2
MaxMultiVolume == 100
UserFunds == 100
MaxBookOrders == 103
FeeWordBits == 14

Min(a, b) == IF a <= b THEN a ELSE b
Max(a, b) == IF a >= b THEN a ELSE b
Abs(a) == IF a >= 0 THEN a ELSE 0 - a
\* Rust's integer division on signed values truncates toward zero.
TruncDiv(a, b) == IF a >= 0 THEN a \div b ELSE 0 - ((0 - a) \div b)

None == <<>>
Some(x) == <<x>>

Callers == {"creator", "trader"}

-----------------------------------------------------------------------------
(* Helper functions of the program *)

\* (variant: the quotient kept at the width of the product)
AsU128(x) == x

\* The cast `as u64` of calculate_fee.  The product is formed in twice the
\* width of the amount; amounts are FeeWordBits wide here, fee rates keep
\* the 16 bits of u16.
AsU64(x) == x % (2 ^ FeeWordBits)

\* u64::MAX at that width
U64Max == 2 ^ FeeWordBits - 1

\* checked_add(..).unwrap(), checked_mul(..).unwrap(): the instruction
\* panics when the exact result is not a u64
Overflows(x) == x > U64Max

\* `total_shares += ..` is a plain addition on u64: it panics in a build
\* with overflow checks and wraps in a build without them.  A result with
\* err = "Unchecked" carries both outcomes.
Builds(r) == IF r.err = "Unchecked" THEN {r.checked, r.wrapped} ELSE {r}

\* calculate_fee
calculate_fee(amount, fee_bps) ==
    IF fee_bps = 0 THEN 0 ELSE AsU64((amount * fee_bps) \div BPS)

\* (variant: the NO price read from the same pool as the YES price)
CpmmPriceSamePool(yes_pool, no_pool, outcome) ==
    (no_pool * BPS) \div (yes_pool + no_pool)

\* the cpmm_price expression of buy_shares, sell_shares, buy_multi, sell_multi
CpmmPrice(yes_pool, no_pool, outcome) ==
    IF outcome THEN (no_pool * BPS) \div (yes_pool + no_pool)
    ELSE (yes_pool * BPS) \div (yes_pool + no_pool)

\* (variant: the pool ratio taken before the amount is added to the pool)
SharesOutBeforeAdd(yes_pool, no_pool, amount, is_yes) ==
    IF is_yes THEN AsU64(amount + ((amount * yes_pool) \div Max(no_pool, 1)))
    ELSE AsU64(amount + ((amount * no_pool) \div Max(yes_pool, 1)))

\* (variant: the amount itself credited twice)
SharesOutTwice(yes_pool, no_pool, amount, is_yes) ==
    IF is_yes THEN AsU64(2 * amount + ((amount * yes_pool) \div Max(no_pool + amount, 1)))
    ELSE AsU64(2 * amount + ((amount * no_pool) \div Max(yes_pool + amount, 1)))

\* calculate_shares_out: the sum is formed in u128 and cast with `as u64`
calculate_shares_out(yes_pool, no_pool, amount, is_yes) ==
    IF is_yes THEN AsU64(amount + ((amount * yes_pool) \div Max(no_pool + amount, 1)))
    ELSE AsU64(amount + ((amount * no_pool) \div Max(yes_pool + amount, 1)))

\* (variant: the shares sold left out of the denominator)
SellPayoutNoShares(yes_pool, no_pool, shares, outcome) ==
    IF outcome THEN (shares * no_pool) \div yes_pool
    ELSE (shares * yes_pool) \div no_pool

\* (variant: the payout measured on the pool of the side sold)
SellPayoutSamePool(yes_pool, no_pool, shares, outcome) ==
    IF outcome THEN (shares * yes_pool) \div (no_pool + shares)
    ELSE (shares * no_pool) \div (yes_pool + shares)

\* the pool payout expression of sell_shares and sell_multi
SellPayout(yes_pool, no_pool, shares, outcome) ==
    IF outcome THEN (shares * no_pool) \div (yes_pool + shares)
    ELSE (shares * yes_pool) \div (no_pool + shares)

-----------------------------------------------------------------------------
(* Limit orders: accounts and matching *)

OrderIds == 1..MaxOrders

\* An order account that was never created, and one closed by cancel_order.
NoOrder == [state |-> "none"]
ClosedOrder == [state |-> "closed"]

IsOpen(ords, k) == k \in DOMAIN ords /\ ords[k].state = "open"

\* (variant: the whole request taken from a candidate, whatever it has left)
ToFillRequested(remaining_amount, available) == remaining_amount

\* (variant: the whole available quantity taken, whatever was requested)
ToFillAll(remaining_amount, available) == available

\* to_fill of find_matching_orders
ToFill(remaining_amount, available) == Min(remaining_amount, available)

\* The match validation and price test of find_matching_orders for one candidate.
Compatible(o, book_market, answer_index, is_yes, is_buy, limit_price) ==
    /\ o.market = book_market
    /\ o.answer_index = answer_index
    /\ o.is_yes # is_yes
    /\ o.is_bid # is_buy
    /\ o.qty > o.filled_qty
    /\ IF is_buy THEN o.price <= limit_price ELSE o.price >= limit_price

\* find_matching_orders: one pass over the caller's candidate accounts, in the
\* order presented; each compatible one is filled and written back at once.
RECURSIVE MatchLoop(_, _, _, _, _, _, _, _, _, _)
MatchLoop(ords, cands, i, book_market, answer_index, is_yes, is_buy, limit_price, filled_amount, remaining_amount) ==
    IF i > Len(cands) \/ remaining_amount = 0
    THEN [orders |-> ords, filled_amount |-> filled_amount,
          remaining_amount |-> remaining_amount, matched_price |-> limit_price]
    ELSE LET k == cands[i] IN
         IF IsOpen(ords, k)
            /\ Compatible(ords[k], book_market, answer_index, is_yes, is_buy, limit_price)
         THEN LET to_fill == ToFill(remaining_amount, ords[k].qty - ords[k].filled_qty)
                  o2 == [ords[k] EXCEPT !.filled_qty = @ + to_fill]
              IN  MatchLoop([ords EXCEPT ![k] = o2], cands, i + 1, book_market,
                            answer_index, is_yes, is_buy, limit_price,
                            filled_amount + to_fill, remaining_amount - to_fill)
         ELSE MatchLoop(ords, cands, i + 1, book_market, answer_index, is_yes,
                        is_buy, limit_price, filled_amount, remaining_amount)

\* The candidate a comes before the candidate b in price-time priority: for a
\* buy the lower price first, for a sell the higher, then the earlier created.
Precedes(ords, a, b, is_buy) ==
    /\ IsOpen(ords, a)
    /\ IsOpen(ords, b)
    /\ \/ IF is_buy THEN ords[a].price < ords[b].price ELSE ords[a].price > ords[b].price
       \/ ords[a].price = ords[b].price /\ ords[a].created_at < ords[b].created_at

\* The candidates in price-time priority, those of equal rank as presented.
RECURSIVE PriceTimeOrder(_, _, _)
PriceTimeOrder(ords, cands, is_buy) ==
    IF cands = <<>> THEN <<>>
    ELSE LET best(j) == \A h \in 1..Len(cands) : ~Precedes(ords, cands[h], cands[j], is_buy)
             j == CHOOSE x \in 1..Len(cands) : best(x) /\ \A h \in 1..(x - 1) : ~best(h)
         IN  <<cands[j]>> \o PriceTimeOrder(ords, [h \in 1..(Len(cands) - 1) |-> IF h < j THEN cands[h] ELSE cands[h + 1]], is_buy)

\* (variant: the candidates taken in price-time priority, not as presented)
FindMatchingOrdersSorted(ords, cands, book_market, answer_index, is_yes, is_buy, limit_price, amount) ==
    MatchLoop(ords, PriceTimeOrder(ords, cands, is_buy), 1, book_market, answer_index, is_yes, is_buy,
              limit_price, 0, amount)

find_matching_orders(ords, cands, book_market, answer_index, is_yes, is_buy, limit_price, amount) ==
    MatchLoop(ords, cands, 1, book_market, answer_index, is_yes, is_buy,
              limit_price, 0, amount)

\* The queue of the book selected by (is_yes, is_bid).
Bucket(is_yes, is_bid) ==
    IF is_yes THEN (IF is_bid THEN "yes_buy_orders" ELSE "yes_sell_orders")
    ELSE (IF is_bid THEN "no_buy_orders" ELSE "no_sell_orders")

RemoveAt(s, pos) == [j \in 1..(Len(s) - 1) |-> IF j < pos THEN s[j] ELSE s[j + 1]]

FirstPos(s, k) == IF \E j \in 1..Len(s) : s[j] = k
                  THEN CHOOSE j \in 1..Len(s) : s[j] = k /\ \A h \in 1..(j - 1) : s[h] # k
                  ELSE 0

\* remove_order_from_book
remove_order_from_book(book, k, is_yes, is_bid) ==
    LET b == Bucket(is_yes, is_bid)
        pos == FirstPos(book[b], k)
    IN  IF pos > 0 THEN [removed |-> TRUE, book |-> [book EXCEPT ![b] = RemoveAt(@, pos)]]
        ELSE [removed |-> FALSE, book |-> book]

\* (variant: a queue holding BookCapacity entries still takes one more)
HasRoomInclusive(bucket) == Len(bucket) <= BookCapacity

\* the capacity test of place_order and place_multi_order
HasRoom(bucket) == Len(bucket) < BookCapacity

\* (variant: the new key put in front of the queue)
PushFront(bucket, k) == <<k>> \o bucket

\* bucket.push(order_key)
Push(bucket, k) == Append(bucket, k)

\* Candidate account lists a caller can pass: existing order accounts, in any
\* order, repetitions allowed.
CandLists(ords) ==
    LET live == {k \in DOMAIN ords : ords[k].state # "none"}
    IN  UNION {[1..n -> live] : n \in 0..MaxCands}

-----------------------------------------------------------------------------
(* Binary market *)

\* Keys of the accounts the model tells apart.
MarketKey == "market"
MultiMarketKey == "multi_market"
DefaultKey == "default"

NoMarket ==
    [initialized |-> FALSE, creator |-> "creator", resolution_time |-> 0,
     yes_pool |-> 0, no_pool |-> 0, total_volume |-> 0, resolved |-> FALSE,
     outcome |-> FALSE, fee_bps |-> 0, creator_fee_bps |-> 0,
     platform_fee_bps |-> 0, liquidity_fee_bps |-> 0, collected_fees |-> 0]

NoPosition == [exists |-> FALSE, yes_shares |-> 0, no_shares |-> 0]

\* The Orderbook account before any instruction created it.
NoBook ==
    [exists |-> FALSE, market |-> DefaultKey, yes_buy_orders |-> <<>>,
     yes_sell_orders |-> <<>>, no_buy_orders |-> <<>>, no_sell_orders |-> <<>>]

\* init_if_needed: the account comes into being zeroed; its fields are not set.
InitIfNeeded(acct) == [acct EXCEPT !.exists = TRUE]

Fail(e) == [err |-> e]

\* (variant: what was written before the error stays in the account)
Committed(before, written) == written

\* An account an instruction wrote to before it returned an error: the
\* transaction fails and the account keeps what it held before.
Reverted(before, written) == before

\* create_market
create_market(m, clock, question_len, resolution_time, initial_liquidity) ==
    IF question_len > MaxQuestionLen THEN Fail("QuestionTooLong")
    ELSE IF ~(resolution_time > clock) THEN Fail("InvalidResolutionTime")
    ELSE IF ~(initial_liquidity >= MinLiquidity) THEN Fail("InsufficientLiquidity")
    ELSE [err |-> "Ok",
          market |-> [NoMarket EXCEPT !.initialized = TRUE,
                                      !.resolution_time = resolution_time,
                                      !.yes_pool = initial_liquidity,
                                      !.no_pool = initial_liquidity]]

\* create_orderbook
create_orderbook(book) == [NoBook EXCEPT !.exists = TRUE, !.market = MarketKey]

\* buy_shares
buy_shares(m, pos, ords, book, outcome, amount, min_shares_out, cands) ==
    IF m.resolved THEN Fail("MarketResolved")
    ELSE IF ~(amount > 0) THEN Fail("InvalidAmount")
    ELSE
    LET fee == calculate_fee(amount, m.fee_bps)
        amount_after_fee == amount - fee
        cpmm_price == CpmmPrice(m.yes_pool, m.no_pool, outcome)
        mr == find_matching_orders(ords, cands, book.market, None, outcome, TRUE, cpmm_price, amount_after_fee)
        matched_shares == IF mr.filled_amount > 0
                          THEN AsU64((mr.filled_amount * BPS) \div Max(cpmm_price, 1)) ELSE 0
        shares == IF mr.remaining_amount > 0
                  THEN calculate_shares_out(m.yes_pool, m.no_pool, mr.remaining_amount, outcome)
                  ELSE 0
        m1 == IF outcome THEN [m EXCEPT !.no_pool = @ + mr.remaining_amount]
              ELSE [m EXCEPT !.yes_pool = @ + mr.remaining_amount]
        m2 == [m1 EXCEPT !.collected_fees = @ + fee, !.total_volume = @ + amount]
        \* from the slippage test on, with the total the build has formed
        Credit(total_shares) ==
            LET pos2 == IF outcome THEN [pos EXCEPT !.yes_shares = @ + total_shares]
                        ELSE [pos EXCEPT !.no_shares = @ + total_shares]
            IN  IF ~(total_shares >= min_shares_out)
                THEN [err |-> "SlippageExceeded", orders |-> mr.orders,
                      market |-> [m1 EXCEPT !.collected_fees = @ + fee]]
                ELSE IF Overflows(pos2.yes_shares) \/ Overflows(pos2.no_shares)
                        \/ Overflows(m2.total_volume)
                THEN Fail("Panic")
                ELSE [err |-> "Ok", market |-> m2, position |-> pos2, orders |-> mr.orders,
                      out |-> total_shares, filled |-> mr.filled_amount,
                      remaining |-> mr.remaining_amount]
    IN  IF fee > amount THEN Fail("Panic")
        ELSE IF Overflows(m.collected_fees + fee) \/ Overflows(m.yes_pool + m.no_pool)
                \/ Overflows(m1.yes_pool) \/ Overflows(m1.no_pool)
        THEN Fail("Panic")
        ELSE IF Overflows(matched_shares + shares)
        THEN [err |-> "Unchecked", checked |-> Fail("Panic"),
              wrapped |-> Credit(AsU64(matched_shares + shares))]
        ELSE Credit(matched_shares + shares)

\* sell_shares
sell_shares(m, pos, ords, book, outcome, shares_to_sell, min_payout, cands) ==
    IF m.resolved THEN Fail("MarketResolved")
    ELSE IF ~(shares_to_sell > 0) THEN Fail("InvalidAmount")
    ELSE IF ~((IF outcome THEN pos.yes_shares ELSE pos.no_shares) >= shares_to_sell)
    THEN Fail("InsufficientShares")
    ELSE
    LET cpmm_price == CpmmPrice(m.yes_pool, m.no_pool, outcome)
        mr == find_matching_orders(ords, cands, book.market, None, outcome, FALSE, cpmm_price, shares_to_sell)
        matched_payout == IF mr.filled_amount > 0
                          THEN (mr.filled_amount * cpmm_price) \div BPS ELSE 0
        payout == IF mr.remaining_amount > 0
                  THEN SellPayout(m.yes_pool, m.no_pool, mr.remaining_amount, outcome)
                  ELSE 0
        total_payout == matched_payout + payout
        fee == calculate_fee(total_payout, m.fee_bps)
        final_payout == total_payout - fee
        m1 == IF outcome THEN [m EXCEPT !.no_pool = @ - payout]
              ELSE [m EXCEPT !.yes_pool = @ - payout]
        m2 == [m1 EXCEPT !.collected_fees = @ + fee, !.total_volume = @ + final_payout]
        pos2 == IF outcome THEN [pos EXCEPT !.yes_shares = @ - shares_to_sell]
                ELSE [pos EXCEPT !.no_shares = @ - shares_to_sell]
    IN  IF (IF outcome THEN m.no_pool ELSE m.yes_pool) < payout THEN Fail("Panic")
        ELSE IF fee > total_payout THEN Fail("Panic")
        ELSE IF ~(final_payout >= min_payout)
        THEN [err |-> "SlippageExceeded", orders |-> mr.orders,
              market |-> [m1 EXCEPT !.collected_fees = @ + fee]]
        ELSE [err |-> "Ok", market |-> m2, position |-> pos2, orders |-> mr.orders,
              out |-> final_payout, filled |-> mr.filled_amount,
              remaining |-> mr.remaining_amount]

\* (variant: only the winning side of the position is cleared)
ClaimedPositionWinningOnly(m, pos) ==
    IF m.outcome THEN [pos EXCEPT !.yes_shares = 0] ELSE [pos EXCEPT !.no_shares = 0]

\* the "zero out position" step of claim_winnings and claim_winnings_with_vault
ClaimedPosition(m, pos) == [pos EXCEPT !.yes_shares = 0, !.no_shares = 0]

\* claim_winnings (with_vault = FALSE) and claim_winnings_with_vault (TRUE):
\* the same checks and the same position update; the second then transfers
\* `payout` out of the vault's token account, which no instruction of the
\* program pays into for a binary market: `funded` says whether it holds
\* the payout.
claim_winnings(m, pos, with_vault, funded) ==
    IF ~m.resolved THEN Fail("MarketNotResolved")
    ELSE
    LET winning_shares == IF m.outcome THEN pos.yes_shares ELSE pos.no_shares
    IN  IF ~(winning_shares > 0) THEN Fail("NoWinningShares")
        ELSE IF with_vault /\ ~funded THEN Fail("InsufficientFunds")
        ELSE [err |-> "Ok", payout |-> winning_shares, position |-> ClaimedPosition(m, pos)]

\* (variant: a resolved market resolved again)
ResolveMarketAgain(m, clock, resolver, outcome) ==
    IF resolver # m.creator THEN Fail("Unauthorized")
    ELSE IF ~(clock >= m.resolution_time) THEN Fail("TooEarlyToResolve")
    ELSE [err |-> "Ok", market |-> [m EXCEPT !.resolved = TRUE, !.outcome = outcome]]

\* resolve_market
resolve_market(m, clock, resolver, outcome) ==
    IF m.resolved THEN Fail("MarketResolved")
    ELSE IF resolver # m.creator THEN Fail("Unauthorized")
    ELSE IF ~(clock >= m.resolution_time) THEN Fail("TooEarlyToResolve")
    ELSE [err |-> "Ok", market |-> [m EXCEPT !.resolved = TRUE, !.outcome = outcome]]

\* (variant: only the trading fee counted against the cap)
TotalFeesTradingOnly(fee_bps, creator_fee_bps, platform_fee_bps, liquidity_fee_bps) == fee_bps

\* total_fees of set_market_fees
TotalFees(fee_bps, creator_fee_bps, platform_fee_bps, liquidity_fee_bps) ==
    fee_bps + creator_fee_bps + platform_fee_bps + liquidity_fee_bps

\* set_market_fees
set_market_fees(m, caller, fee_bps, creator_fee_bps, platform_fee_bps, liquidity_fee_bps) ==
    IF caller # m.creator THEN Fail("Unauthorized")
    ELSE IF ~(TotalFees(fee_bps, creator_fee_bps, platform_fee_bps, liquidity_fee_bps) <= MaxTotalFeeBps)
    THEN Fail("FeesTooHigh")
    ELSE [err |-> "Ok",
          market |-> [m EXCEPT !.fee_bps = fee_bps, !.creator_fee_bps = creator_fee_bps,
                               !.platform_fee_bps = platform_fee_bps,
                               !.liquidity_fee_bps = liquidity_fee_bps]]

-----------------------------------------------------------------------------
(* Limit order instructions *)

\* place_order.  `k` is the key of the new order account, `owner` its signer.
place_order(m, book, ords, k, clock, owner, answer_index, price, qty, is_yes, is_bid, cands) ==
    IF m.resolved THEN Fail("MarketResolved")
    ELSE IF ~(qty > 0) THEN Fail("InvalidAmount")
    ELSE IF ~(price > 0 /\ price < BPS) THEN Fail("InvalidPrice")
    ELSE
    LET mr == find_matching_orders(ords, cands, book.market, answer_index, is_yes, is_bid, price, qty)
        order == [state |-> "open", owner |-> owner, market |-> MarketKey,
                  answer_index |-> answer_index, price |-> price, qty |-> qty,
                  filled_qty |-> mr.filled_amount, is_yes |-> is_yes,
                  is_bid |-> is_bid, created_at |-> clock]
        b == Bucket(is_yes, is_bid)
        ords2 == [mr.orders EXCEPT ![k] = order]
    IN  IF order.filled_qty < order.qty
        THEN IF ~HasRoom(book[b]) THEN Fail("OrderbookFull")
             ELSE [err |-> "Ok", orders |-> ords2,
                   book |-> [book EXCEPT ![b] = Push(@, k)],
                   filled |-> mr.filled_amount, remaining |-> mr.remaining_amount]
        ELSE [err |-> "Ok", orders |-> ords2, book |-> book,
              filled |-> mr.filled_amount, remaining |-> mr.remaining_amount]

\* place_multi_order.  `m` is the MultiMarket, `book` its Orderbook account.
place_multi_order(m, book, ords, k, clock, owner, answer_index, price, qty, is_yes, is_bid, cands) ==
    IF m.resolved THEN Fail("MarketResolved")
    ELSE IF ~(qty > 0) THEN Fail("InvalidAmount")
    ELSE IF ~(price > 0 /\ price < BPS) THEN Fail("InvalidPrice")
    ELSE IF ~(answer_index < m.answer_count) THEN Fail("InvalidAnswerIndex")
    ELSE
    LET mr == find_matching_orders(ords, cands, book.market, Some(answer_index), is_yes, is_bid, price, qty)
        order == [state |-> "open", owner |-> owner, market |-> MultiMarketKey,
                  answer_index |-> Some(answer_index), price |-> price, qty |-> qty,
                  filled_qty |-> mr.filled_amount, is_yes |-> is_yes,
                  is_bid |-> is_bid, created_at |-> clock]
        b == Bucket(is_yes, is_bid)
        ords2 == [mr.orders EXCEPT ![k] = order]
    IN  IF order.filled_qty < order.qty
        THEN IF ~HasRoom(book[b]) THEN Fail("OrderbookFull")
             ELSE [err |-> "Ok", orders |-> ords2,
                   book |-> [book EXCEPT ![b] = Push(@, k)],
                   filled |-> mr.filled_amount, remaining |-> mr.remaining_amount]
        ELSE [err |-> "Ok", orders |-> ords2, book |-> book,
              filled |-> mr.filled_amount, remaining |-> mr.remaining_amount]

\* cancel_order, with the owner constraint of the CancelOrder accounts; on
\* success the order account is closed.
cancel_order(book, ords, k, caller) ==
    IF ords[k].owner # caller THEN Fail("Unauthorized")
    ELSE
    LET r == remove_order_from_book(book, k, ords[k].is_yes, ords[k].is_bid)
    IN  IF ~r.removed THEN Fail("OrderNotFound")
        ELSE [err |-> "Ok", book |-> r.book, orders |-> [ords EXCEPT ![k] = ClosedOrder]]

-----------------------------------------------------------------------------
(* Multi-choice market *)

\* remaining_accounts entries: an Answer of this market, a LimitOrder, or an
\* account the loops skip (not owned by the program, or of another market).
AnswerRef(i) == [kind |-> "answer", id |-> i]
OrderRef(k) == [kind |-> "order", id |-> k]
OtherRef == [kind |-> "other", id |-> 0]

\* The LimitOrder accounts among remaining_accounts, in the order presented.
RECURSIVE OrderCands(_, _)
OrderCands(accts, i) ==
    IF i > Len(accts) THEN <<>>
    ELSE IF accts[i].kind = "order" THEN <<accts[i].id>> \o OrderCands(accts, i + 1)
    ELSE OrderCands(accts, i + 1)

ZeroShares == [i \in 0..(MaxAnswers - 1) |-> 0]

\* (variant: the traded answer is not told apart from its siblings)
IsSiblingOrSelf(ans, current, a) ==
    a.kind = "answer" /\ ans[a.id].yes_pool + ans[a.id].no_pool > 0

\* The entries the first loop of sync_sibling_pools keeps: an Answer of this
\* market, owned by the program, other than the traded one, with a pool.
IsSibling(ans, current, a) ==
    a.kind = "answer" /\ a.id # current /\ ans[a.id].yes_pool + ans[a.id].no_pool > 0

\* The first loop of sync_sibling_pools: other_answers, as (index, total, p).
RECURSIVE CollectSiblings(_, _, _, _)
CollectSiblings(ans, current, accts, i) ==
    IF i > Len(accts) THEN <<>>
    ELSE LET a == accts[i]
             rest == CollectSiblings(ans, current, accts, i + 1)
         IN  IF IsSibling(ans, current, a)
             THEN <<[idx |-> a.id,
                     total |-> ans[a.id].yes_pool + ans[a.id].no_pool,
                     p |-> (ans[a.id].no_pool * BPS) \div (ans[a.id].yes_pool + ans[a.id].no_pool)]>> \o rest
             ELSE rest

RECURSIVE SumOldProb(_, _)
SumOldProb(others, i) ==
    IF i > Len(others) THEN 0 ELSE others[i].p + SumOldProb(others, i + 1)

\* new_p of the second loop of sync_sibling_pools
NewProb(p, target, sum_old) ==
    IF sum_old > 0 THEN (p * target) \div sum_old ELSE target

\* sibling.no_pool as the second loop of sync_sibling_pools sets it
NewNoPool(total, new_p) == (total * new_p) \div BPS

RECURSIVE SumActualProb(_, _, _, _)
SumActualProb(others, target, sum_old, i) ==
    IF i > Len(others) THEN 0
    ELSE LET e == others[i]
             n == NewNoPool(e.total, NewProb(e.p, target, sum_old))
         IN  (IF e.total > 0 THEN (n * BPS) \div e.total ELSE 0)
             + SumActualProb(others, target, sum_old, i + 1)

\* The rounding compensation of sync_sibling_pools on the last sibling:
\* its pools after the adjustment.
Compensate(total, no_pool, rounding_error) ==
    LET adjustment == TruncDiv(total * rounding_error, BPS)
        n == Max(no_pool + adjustment, 0)
    IN  [no_pool |-> n, yes_pool |-> Max(total - n, 0)]

\* (variant: one account less than expected is let through)
EnoughAccountsButOne(len, expected_sibling_count) == len + 1 >= expected_sibling_count

\* The first test of sync_sibling_pools, on remaining_accounts.len()
EnoughAccounts(len, expected_sibling_count) == len >= expected_sibling_count

\* sync_sibling_pools
sync_sibling_pools(ans, current, new_price, expected_sibling_count, accts) ==
    IF ~EnoughAccounts(Len(accts), expected_sibling_count) THEN Fail("MissingSiblings")
    ELSE
    LET others == CollectSiblings(ans, current, accts, 1)
        sum_old == SumOldProb(others, 1)
        target == Max(BPS - new_price, 0)
        actual == SumActualProb(others, target, sum_old, 1)
        Entry(i) == others[CHOOSE j \in 1..Len(others) : others[j].idx = i]
        main == [i \in DOMAIN ans |->
                    IF \E j \in 1..Len(others) : others[j].idx = i
                    THEN LET n == NewNoPool(Entry(i).total, NewProb(Entry(i).p, target, sum_old))
                         IN  [ans[i] EXCEPT !.no_pool = n, !.yes_pool = Entry(i).total - n]
                    ELSE ans[i]]
        lst == others[Len(others)]
        rounding_error == target - actual
        c == Compensate(lst.total, main[lst.idx].no_pool, rounding_error)
    IN  IF others = <<>> THEN [err |-> "Ok", answers |-> ans]
        ELSE IF Abs(rounding_error) > 0 /\ Abs(rounding_error) < RoundingWindow
        THEN [err |-> "Ok",
              answers |-> [main EXCEPT ![lst.idx] = [@ EXCEPT !.no_pool = c.no_pool, !.yes_pool = c.yes_pool]]]
        ELSE [err |-> "Ok", answers |-> main]

\* (variant: trades of up to half the pool let through)
MaxTradeHalf(total_pool) == total_pool \div 2

\* max_trade of buy_multi
MaxTrade(total_pool) == total_pool \div TradeDivisor

\* buy_multi on the Answer with index idx
buy_multi(m, ans, pos, ords, book, idx, outcome, amount, min_shares_out, accts) ==
    IF m.resolved THEN Fail("MarketResolved")
    ELSE IF ~(amount > 0) THEN Fail("InvalidAmount")
    ELSE IF Overflows(ans[idx].yes_pool + ans[idx].no_pool) THEN Fail("Panic")
    ELSE IF ~(amount <= MaxTrade(ans[idx].yes_pool + ans[idx].no_pool)) THEN Fail("TradeTooLarge")
    ELSE
    LET answer == ans[idx]
        fee == calculate_fee(amount, m.fee_bps)
        amount_after_fee == amount - fee
        cpmm_price == CpmmPrice(answer.yes_pool, answer.no_pool, outcome)
        mr == find_matching_orders(ords, OrderCands(accts, 1), book.market, Some(idx), outcome, TRUE, cpmm_price, amount_after_fee)
        matched_shares == IF mr.filled_amount > 0
                          THEN AsU64((mr.filled_amount * BPS) \div Max(cpmm_price, 1)) ELSE 0
        shares == IF mr.remaining_amount > 0
                  THEN calculate_shares_out(answer.yes_pool, answer.no_pool, mr.remaining_amount, outcome)
                  ELSE 0
        a1 == IF outcome THEN [answer EXCEPT !.no_pool = @ + mr.remaining_amount]
              ELSE [answer EXCEPT !.yes_pool = @ + mr.remaining_amount]
        new_price == CpmmPrice(a1.yes_pool, a1.no_pool, outcome)
        sync == IF m.is_one_winner
                THEN sync_sibling_pools(ans, idx, new_price, m.answer_count - 1, accts)
                ELSE [err |-> "Ok", answers |-> ans]
        a2 == [a1 EXCEPT !.volume = @ + amount]
        \* from the slippage test on, with the total the build has formed
        Credit(total_shares) ==
            LET pos2 == IF outcome THEN [pos EXCEPT !.yes_shares[idx] = @ + total_shares]
                        ELSE [pos EXCEPT !.no_shares[idx] = @ + total_shares]
            IN  IF ~(total_shares >= min_shares_out)
                THEN [err |-> "SlippageExceeded", orders |-> mr.orders,
                      answers |-> [sync.answers EXCEPT ![idx] = a1]]
                ELSE IF Overflows(pos2.yes_shares[idx]) \/ Overflows(pos2.no_shares[idx])
                        \/ Overflows(a2.volume) \/ Overflows(m.volume + amount)
                THEN Fail("Panic")
                ELSE [err |-> "Ok", mm |-> [m EXCEPT !.volume = @ + amount],
                      answers |-> [sync.answers EXCEPT ![idx] = a2], position |-> pos2,
                      orders |-> mr.orders, out |-> total_shares, filled |-> mr.filled_amount,
                      remaining |-> mr.remaining_amount]
    IN  IF fee > amount THEN Fail("Panic")
        ELSE IF Overflows(a1.yes_pool) \/ Overflows(a1.no_pool) THEN Fail("Panic")
        ELSE IF m.is_one_winner /\ Overflows(a1.yes_pool + a1.no_pool) THEN Fail("Panic")
        ELSE IF sync.err # "Ok" THEN Fail(sync.err)
        ELSE IF Overflows(matched_shares + shares)
        THEN [err |-> "Unchecked", checked |-> Fail("Panic"),
              wrapped |-> Credit(AsU64(matched_shares + shares))]
        ELSE Credit(matched_shares + shares)

\* sell_multi on the Answer with index idx
sell_multi(m, ans, pos, ords, book, idx, outcome, shares_to_sell, min_payout, accts) ==
    IF m.resolved THEN Fail("MarketResolved")
    ELSE IF ~(shares_to_sell > 0) THEN Fail("InvalidAmount")
    ELSE IF ~((IF outcome THEN pos.yes_shares[idx] ELSE pos.no_shares[idx]) >= shares_to_sell)
    THEN Fail("InsufficientShares")
    ELSE
    LET answer == ans[idx]
        cpmm_price == CpmmPrice(answer.yes_pool, answer.no_pool, outcome)
        mr == find_matching_orders(ords, OrderCands(accts, 1), book.market, Some(idx), outcome, FALSE, cpmm_price, shares_to_sell)
        matched_payout == IF mr.filled_amount > 0
                          THEN (mr.filled_amount * cpmm_price) \div BPS ELSE 0
        payout == IF mr.remaining_amount > 0
                  THEN SellPayout(answer.yes_pool, answer.no_pool, mr.remaining_amount, outcome)
                  ELSE 0
        total_payout == matched_payout + payout
        a1 == IF outcome THEN [answer EXCEPT !.no_pool = @ - payout]
              ELSE [answer EXCEPT !.yes_pool = @ - payout]
        new_price == CpmmPrice(a1.yes_pool, a1.no_pool, outcome)
        sync == IF m.is_one_winner
                THEN sync_sibling_pools(ans, idx, new_price, m.answer_count - 1, accts)
                ELSE [err |-> "Ok", answers |-> ans]
        fee == calculate_fee(total_payout, m.fee_bps)
        final_payout == total_payout - fee
        a2 == [a1 EXCEPT !.volume = @ + final_payout]
        pos2 == IF outcome THEN [pos EXCEPT !.yes_shares[idx] = @ - shares_to_sell]
                ELSE [pos EXCEPT !.no_shares[idx] = @ - shares_to_sell]
    IN  IF (IF outcome THEN answer.no_pool ELSE answer.yes_pool) < payout THEN Fail("Panic")
        ELSE IF sync.err # "Ok" THEN Fail(sync.err)
        ELSE IF fee > total_payout THEN Fail("Panic")
        ELSE IF ~(final_payout >= min_payout)
        THEN [err |-> "SlippageExceeded", orders |-> mr.orders,
              answers |-> [sync.answers EXCEPT ![idx] = a1]]
        ELSE [err |-> "Ok", mm |-> [m EXCEPT !.volume = @ + final_payout],
              answers |-> [sync.answers EXCEPT ![idx] = a2], position |-> pos2,
              orders |-> mr.orders, out |-> final_payout, filled |-> mr.filled_amount,
              remaining |-> mr.remaining_amount]

\* (variant: the siblings rebalanced whether or not the market is one-winner)
RebalanceAnyMarket(m, ans, idx, accts) ==
    IF ans[idx].yes_pool + ans[idx].no_pool = 0 THEN Fail("Panic")
    ELSE sync_sibling_pools(ans, idx, CpmmPrice(ans[idx].yes_pool, ans[idx].no_pool, TRUE), m.answer_count - 1, accts)

\* rebalance_market with the Answer with index idx as the anchor
rebalance_market(m, ans, idx, accts) ==
    IF ~m.is_one_winner THEN Fail("NotOneWinnerMarket")
    ELSE IF ans[idx].yes_pool + ans[idx].no_pool = 0 THEN Fail("Panic")
    ELSE sync_sibling_pools(ans, idx, CpmmPrice(ans[idx].yes_pool, ans[idx].no_pool, TRUE), m.answer_count - 1, accts)

\* set_multi_market_config
set_multi_market_config(m, caller, is_one_winner, fee_bps, resolution_time) ==
    IF caller # m.creator THEN Fail("Unauthorized")
    ELSE [err |-> "Ok",
          mm |-> [m EXCEPT !.is_one_winner = is_one_winner, !.fee_bps = fee_bps,
                           !.resolution_time = resolution_time]]

\* has_winner
has_winner(m) == FALSE

\* (variant: an answer that is resolved resolved again)
ResolveAnswerAgain(m, ans, idx, clock, resolver, outcome) ==
    IF resolver # m.creator THEN Fail("Unauthorized")
    ELSE IF ~(clock >= m.resolution_time) THEN Fail("TooEarlyToResolve")
    ELSE IF m.is_one_winner /\ outcome /\ ~(m.answers_resolved = 0 \/ ~has_winner(m))
    THEN Fail("WinnerAlreadyDeclared")
    ELSE
    LET n == m.answers_resolved + 1
        m2 == [m EXCEPT !.answers_resolved = n,
                        !.resolved = IF n = m.answer_count THEN TRUE ELSE @]
    IN  [err |-> "Ok", mm |-> m2,
         answers |-> [ans EXCEPT ![idx] = [@ EXCEPT !.resolved = TRUE, !.outcome = Some(outcome)]]]

\* resolve_answer on the Answer with index idx
resolve_answer(m, ans, idx, clock, resolver, outcome) ==
    IF ans[idx].resolved THEN Fail("AnswerAlreadyResolved")
    ELSE IF resolver # m.creator THEN Fail("Unauthorized")
    ELSE IF ~(clock >= m.resolution_time) THEN Fail("TooEarlyToResolve")
    ELSE IF m.is_one_winner /\ outcome /\ ~(m.answers_resolved = 0 \/ ~has_winner(m))
    THEN Fail("WinnerAlreadyDeclared")
    ELSE
    LET n == m.answers_resolved + 1
        m2 == [m EXCEPT !.answers_resolved = n,
                        !.resolved = IF n = m.answer_count THEN TRUE ELSE @]
    IN  [err |-> "Ok", mm |-> m2,
         answers |-> [ans EXCEPT ![idx] = [@ EXCEPT !.resolved = TRUE, !.outcome = Some(outcome)]]]

\* The sum of the YES shares from slot i on, as an integer of any size.
RECURSIVE SumYesShares(_, _, _)
SumYesShares(pos, i, total_payout) ==
    IF i >= MaxAnswers THEN total_payout
    ELSE SumYesShares(pos, i + 1, total_payout + pos.yes_shares[i])

\* the loop of claim_multi_winnings from slot i on:
\* total_payout.checked_add(position.yes_shares[i]).unwrap_or(total_payout)
RECURSIVE PayoutSum(_, _, _)
PayoutSum(pos, i, total_payout) ==
    IF i >= MaxAnswers THEN total_payout
    ELSE PayoutSum(pos, i + 1,
                   IF Overflows(total_payout + pos.yes_shares[i]) THEN total_payout
                   ELSE total_payout + pos.yes_shares[i])

\* claim_multi_winnings (with_vault = FALSE) and claim_multi_winnings_with_vault
claim_multi_winnings(m, pos, tok, with_vault) ==
    IF ~m.resolved THEN Fail("MarketNotResolved")
    ELSE
    LET total_payout == PayoutSum(pos, 0, 0)
        pos2 == [pos EXCEPT !.yes_shares = ZeroShares, !.no_shares = ZeroShares]
    IN  IF ~with_vault THEN [err |-> "Ok", payout |-> total_payout, position |-> pos2, tokens |-> tok]
        ELSE IF ~(total_payout > 0) THEN Fail("NoWinningShares")
        ELSE IF tok.vault < total_payout THEN Fail("InsufficientFunds")
        ELSE [err |-> "Ok", payout |-> total_payout, position |-> pos2,
              tokens |-> [tok EXCEPT !.vault = @ - total_payout, !.user = @ + total_payout]]

\* split_position on the Answer with index idx
split_position(pos, tok, idx, amount) ==
    IF ~(amount > 0) THEN Fail("InvalidAmount")
    ELSE IF tok.user < amount THEN Fail("InsufficientFunds")
    ELSE [err |-> "Ok",
          tokens |-> [tok EXCEPT !.user = @ - amount, !.vault = @ + amount],
          position |-> [pos EXCEPT !.yes_shares[idx] = @ + amount, !.no_shares[idx] = @ + amount]]

\* index_set & (1 << i) > 0
Bit(index_set, i) == (index_set \div (2 ^ i)) % 2 = 1

\* index_set.count_ones() of a u16
CountOnes(index_set) == Cardinality({i \in 0..15 : Bit(index_set, i)})

\* (variant: collateral released for every answer of the set)
CollateralOutAll(no_count, amount_after_fee) == no_count * amount_after_fee

\* collateral_out of convert_positions
CollateralOut(no_count, amount_after_fee) == (no_count - 1) * amount_after_fee

\* (variant: only the first answer of the set is verified)
HoldsNoSharesOnFirst(pos, index_set, question_count, amount) ==
    \A i \in 0..(question_count - 1) :
        (Bit(index_set, i) /\ \A j \in 0..(i - 1) : ~Bit(index_set, j))
            => pos.no_shares[i] >= amount

\* The loop of convert_positions that verifies the NO shares held.
HoldsNoShares(pos, index_set, question_count, amount) ==
    \A i \in 0..(question_count - 1) : Bit(index_set, i) => pos.no_shares[i] >= amount

\* convert_positions
convert_positions(m, pos, tok, index_set, amount) ==
    IF ~m.is_one_winner THEN Fail("NotOneWinnerMarket")
    ELSE IF m.resolved THEN Fail("MarketResolved")
    ELSE IF ~(index_set > 0) THEN Fail("InvalidIndexSet")
    ELSE IF ~(index_set \div (2 ^ m.answer_count) = 0) THEN Fail("InvalidIndexSet")
    ELSE IF amount = 0 THEN [err |-> "Ok", position |-> pos, tokens |-> tok]
    ELSE
    LET question_count == m.answer_count
        no_count == CountOnes(index_set)
        fee == calculate_fee(amount, m.fee_bps)
        amount_after_fee == amount - fee
        collateral_out == CollateralOut(no_count, amount_after_fee)
        total_fee == IF fee > 0 THEN fee * (no_count - 1) ELSE 0
        pos2 == [pos EXCEPT
                   !.no_shares = [i \in DOMAIN @ |->
                                    IF i < question_count /\ Bit(index_set, i) THEN @[i] - amount ELSE @[i]],
                   !.yes_shares = [i \in DOMAIN @ |->
                                    IF i < question_count /\ ~Bit(index_set, i) THEN @[i] + amount_after_fee ELSE @[i]]]
    IN  IF ~(no_count >= 1) THEN Fail("NoConvertiblePositions")
        ELSE IF ~HoldsNoShares(pos, index_set, question_count, amount) THEN Fail("InsufficientShares")
        ELSE IF fee > amount THEN Fail("Panic")
        ELSE IF tok.vault < total_fee + collateral_out THEN Fail("InsufficientFunds")
        ELSE [err |-> "Ok", position |-> pos2,
              tokens |-> [tok EXCEPT !.vault = @ - total_fee - collateral_out,
                                     !.fee_vault = @ + total_fee,
                                     !.user = @ + collateral_out]]

\* (variant: only the YES side is tested before the burn)
MergeYesOnly(pos, tok, idx, amount) ==
    IF ~(amount > 0) THEN Fail("InvalidAmount")
    ELSE IF ~(pos.yes_shares[idx] >= amount) THEN Fail("InsufficientShares")
    ELSE IF tok.vault < amount THEN Fail("InsufficientFunds")
    ELSE [err |-> "Ok",
          tokens |-> [tok EXCEPT !.vault = @ - amount, !.user = @ + amount],
          position |-> [pos EXCEPT !.yes_shares[idx] = @ - amount, !.no_shares[idx] = @ - amount]]

\* merge_positions on the Answer with index idx
merge_positions(pos, tok, idx, amount) ==
    IF ~(amount > 0) THEN Fail("InvalidAmount")
    ELSE IF ~(pos.yes_shares[idx] >= amount) THEN Fail("InsufficientShares")
    ELSE IF ~(pos.no_shares[idx] >= amount) THEN Fail("InsufficientShares")
    ELSE IF tok.vault < amount THEN Fail("InsufficientFunds")
    ELSE [err |-> "Ok",
          tokens |-> [tok EXCEPT !.vault = @ - amount, !.user = @ + amount],
          position |-> [pos EXCEPT !.yes_shares[idx] = @ - amount, !.no_shares[idx] = @ - amount]]

\* create_multi_market
create_multi_market(clock, answer_count, is_one_winner, initial_liquidity, fee_bps, resolution_time) ==
    IF ~(answer_count >= MinAnswers /\ answer_count <= MaxAnswers) THEN Fail("InvalidAnswerCount")
    ELSE IF ~(resolution_time > clock) THEN Fail("InvalidResolutionTime")
    ELSE IF ~(initial_liquidity >= MinLiquidity) THEN Fail("InsufficientLiquidity")
    ELSE IF ~(fee_bps <= MaxTotalFeeBps) THEN Fail("FeesTooHigh")
    ELSE [err |-> "Ok",
          mm |-> [initialized |-> TRUE, creator |-> "creator", answer_count |-> answer_count,
                  is_one_winner |-> is_one_winner, volume |-> 0, fee_bps |-> fee_bps,
                  resolution_time |-> resolution_time, resolved |-> FALSE, answers_resolved |-> 0]]

\* add_answer: the Answer account it initializes
add_answer(m, index, initial_liquidity) ==
    IF ~(index < m.answer_count) THEN Fail("InvalidAnswerIndex")
    ELSE IF ~(initial_liquidity >= MinLiquidity) THEN Fail("InsufficientLiquidity")
    ELSE IF Overflows(initial_liquidity * (m.answer_count - 1)) THEN Fail("Panic")
    ELSE [err |-> "Ok",
          answer |-> [no_pool |-> initial_liquidity,
                      yes_pool |-> initial_liquidity * (m.answer_count - 1),
                      volume |-> 0, resolved |-> FALSE, outcome |-> None]]

-----------------------------------------------------------------------------
(* Inputs the model draws from *)

Liquidities == {50, 100, 150}
QuestionLens == {200, 201}
BuyAmounts == {0, 100}
SellAmounts == {0, 100}
MinOuts == {0, 200}
Prices == {4000, 5000}
Qtys == {30, 50}
AnswerIndexes == {None}

-----------------------------------------------------------------------------
(* Actions of the binary market *)

Tick ==
    /\ now < MaxTime
    /\ now' = now + 1
    /\ last' = [op |-> "tick", err |-> "Ok"]
    /\ UNCHANGED <<binVars, bookVars, multiVars>>

CreateMarket(question_len, resolution_time, initial_liquidity) ==
    LET r == create_market(market, now, question_len, resolution_time, initial_liquidity)
    IN  /\ ~market.initialized
        /\ market' = IF r.err = "Ok" THEN r.market ELSE market
        /\ last' = [op |-> "create_market", err |-> r.err, amount |-> initial_liquidity]
        /\ UNCHANGED <<now, user_position, bookVars, multiVars>>

CreateOrderbook ==
    /\ market.initialized
    /\ ~orderbook.exists
    /\ orderbook' = create_orderbook(orderbook)
    /\ last' = [op |-> "create_orderbook", err |-> "Ok"]
    /\ UNCHANGED <<now, binVars, orders, multiVars>>

\* The shares a buy of filled + remaining is due on pools (yes_pool, no_pool),
\* as an integer of any size.
ExactSharesOut(yes_pool, no_pool, filled, remaining, outcome) ==
    (IF filled > 0
     THEN (filled * BPS) \div Max(CpmmPrice(yes_pool, no_pool, outcome), 1) ELSE 0)
    + (IF remaining > 0
       THEN remaining + ((remaining * (IF outcome THEN yes_pool ELSE no_pool))
                         \div Max((IF outcome THEN no_pool ELSE yes_pool) + remaining, 1))
       ELSE 0)

\* One buy_shares transaction, in either build.
BuySharesTx(outcome, amount, min_shares_out, cands) ==
    /\ market.initialized
    /\ \E r \in Builds(buy_shares(market, InitIfNeeded(user_position), orders, InitIfNeeded(orderbook), outcome, amount, min_shares_out, cands)) :
        /\ IF r.err = "Ok"
           THEN /\ market' = r.market
                /\ user_position' = r.position
                /\ orders' = r.orders
                /\ orderbook' = InitIfNeeded(orderbook)
                /\ last' = [op |-> "buy_shares", err |-> "Ok", outcome |-> outcome,
                            amount |-> amount, out |-> r.out, filled |-> r.filled,
                            remaining |-> r.remaining, cands |-> cands,
                            wide |-> Overflows(ExactSharesOut(market.yes_pool, market.no_pool,
                                                              r.filled, r.remaining, outcome))]
           ELSE IF r.err = "SlippageExceeded"
           THEN /\ market' = Reverted(market, r.market)
                /\ orders' = Reverted(orders, r.orders)
                /\ UNCHANGED <<user_position, orderbook>>
                /\ last' = [op |-> "buy_shares", err |-> r.err, outcome |-> outcome,
                            amount |-> amount, cands |-> cands,
                            wrote |-> [orders |-> r.orders # orders, pools |-> r.market # market]]
           ELSE /\ UNCHANGED <<binVars, bookVars>>
                /\ last' = [op |-> "buy_shares", err |-> r.err, outcome |-> outcome,
                            amount |-> amount, cands |-> cands]
        /\ UNCHANGED <<now, multiVars>>

\* buy_shares while the volume traded is within the bound of the model
BuyShares(outcome, amount, min_shares_out, cands) ==
    /\ market.total_volume + amount <= MaxVolume
    /\ BuySharesTx(outcome, amount, min_shares_out, cands)

\* What the seller paid for the shares sold, when the instruction before this
\* sale was the seller's buy of exactly these shares; 0 otherwise.
BoughtFor(l, outcome, shares_to_sell) ==
    IF l.op = "buy_shares" /\ l.err = "Ok" /\ l.outcome = outcome /\ l.out = shares_to_sell
    THEN l.amount ELSE 0

SellShares(outcome, shares_to_sell, min_payout, cands) ==
    LET r == sell_shares(market, InitIfNeeded(user_position), orders, InitIfNeeded(orderbook), outcome, shares_to_sell, min_payout, cands)
    IN  /\ market.initialized
        /\ IF r.err = "Ok"
           THEN /\ market' = r.market
                /\ user_position' = r.position
                /\ orders' = r.orders
                /\ orderbook' = InitIfNeeded(orderbook)
                /\ last' = [op |-> "sell_shares", err |-> "Ok", outcome |-> outcome,
                            amount |-> shares_to_sell, out |-> r.out, filled |-> r.filled,
                            remaining |-> r.remaining, cands |-> cands,
                            bought_for |-> BoughtFor(last, outcome, shares_to_sell)]
           ELSE IF r.err = "SlippageExceeded"
           THEN /\ market' = Reverted(market, r.market)
                /\ orders' = Reverted(orders, r.orders)
                /\ UNCHANGED <<user_position, orderbook>>
                /\ last' = [op |-> "sell_shares", err |-> r.err, outcome |-> outcome,
                            amount |-> shares_to_sell, cands |-> cands,
                            wrote |-> [orders |-> r.orders # orders, pools |-> r.market # market]]
           ELSE /\ UNCHANGED <<binVars, bookVars>>
                /\ last' = [op |-> "sell_shares", err |-> r.err, outcome |-> outcome,
                            amount |-> shares_to_sell, cands |-> cands]
        /\ UNCHANGED <<now, multiVars>>

ClaimWinnings(with_vault, funded) ==
    LET r == claim_winnings(market, user_position, with_vault, funded)
        name == IF with_vault THEN "claim_winnings_with_vault" ELSE "claim_winnings"
    IN  /\ market.initialized
        /\ user_position.exists
        /\ IF r.err = "Ok"
           THEN /\ user_position' = r.position
                /\ last' = [op |-> name, err |-> "Ok", payout |-> r.payout,
                            before |-> user_position, funded |-> funded]
           ELSE /\ UNCHANGED user_position
                /\ last' = [op |-> name, err |-> r.err, before |-> user_position, funded |-> funded]
        /\ UNCHANGED <<now, market, bookVars, multiVars>>

ResolveMarket(resolver, outcome) ==
    LET r == resolve_market(market, now, resolver, outcome)
    IN  /\ market.initialized
        /\ market' = IF r.err = "Ok" THEN r.market ELSE market
        /\ last' = [op |-> "resolve_market", err |-> r.err, outcome |-> outcome,
                    resolver |-> resolver]
        /\ UNCHANGED <<now, user_position, bookVars, multiVars>>

\* The key of the order account a placement creates: the first one unused.
NewOrderKey(ords) ==
    CHOOSE id \in DOMAIN ords : ords[id].state = "none" /\ \A j \in DOMAIN ords : j < id => ords[j].state # "none"

PlaceOrder(answer_index, price, qty, is_yes, is_bid, cands) ==
    LET k == NewOrderKey(orders)
        r == place_order(market, InitIfNeeded(orderbook), orders, k, now, "trader", answer_index, price, qty, is_yes, is_bid, cands)
    IN  /\ market.initialized
        /\ {id \in DOMAIN orders : orders[id].state = "none"} # {}
        /\ IF r.err = "Ok"
           THEN /\ orders' = r.orders
                /\ orderbook' = r.book
                /\ last' = [op |-> "place_order", err |-> "Ok", key |-> k, cands |-> cands,
                            filled |-> r.filled, remaining |-> r.remaining,
                            answer_index |-> answer_index, price |-> price, qty |-> qty,
                            is_yes |-> is_yes, is_bid |-> is_bid]
           ELSE /\ UNCHANGED bookVars
                /\ last' = [op |-> "place_order", err |-> r.err, key |-> k, cands |-> cands,
                            answer_index |-> answer_index, price |-> price, qty |-> qty,
                            is_yes |-> is_yes, is_bid |-> is_bid]
        /\ UNCHANGED <<now, binVars, multiVars>>

\* place_multi_order; `orderbook` is then the Orderbook account of the multi market.
PlaceMultiOrder(answer_index, price, qty, is_yes, is_bid, cands) ==
    LET k == NewOrderKey(orders)
        r == place_multi_order(mm, InitIfNeeded(orderbook), orders, k, now, "trader", answer_index, price, qty, is_yes, is_bid, cands)
    IN  /\ mm.initialized
        /\ {id \in DOMAIN orders : orders[id].state = "none"} # {}
        /\ IF r.err = "Ok"
           THEN /\ orders' = r.orders
                /\ orderbook' = r.book
                /\ last' = [op |-> "place_multi_order", err |-> "Ok", key |-> k, cands |-> cands,
                            filled |-> r.filled, remaining |-> r.remaining,
                            answer_index |-> Some(answer_index), price |-> price, qty |-> qty,
                            is_yes |-> is_yes, is_bid |-> is_bid]
           ELSE /\ UNCHANGED bookVars
                /\ last' = [op |-> "place_multi_order", err |-> r.err, key |-> k, cands |-> cands,
                            answer_index |-> Some(answer_index), price |-> price, qty |-> qty,
                            is_yes |-> is_yes, is_bid |-> is_bid]
        /\ UNCHANGED <<now, binVars, multiVars>>

SetMarketFees(caller, fee_bps, creator_fee_bps, platform_fee_bps, liquidity_fee_bps) ==
    LET r == set_market_fees(market, caller, fee_bps, creator_fee_bps, platform_fee_bps, liquidity_fee_bps)
    IN  /\ market.initialized
        /\ market' = IF r.err = "Ok" THEN r.market ELSE market
        /\ last' = [op |-> "set_market_fees", err |-> r.err, by_creator |-> (caller = market.creator),
                    fees |-> <<fee_bps, creator_fee_bps, platform_fee_bps, liquidity_fee_bps>>]
        /\ UNCHANGED <<now, user_position, bookVars, multiVars>>

CancelOrder(k, caller) ==
    LET r == cancel_order(orderbook, orders, k, caller)
    IN  /\ orders[k].state = "open"
        /\ orderbook.exists
        /\ IF r.err = "Ok"
           THEN orders' = r.orders /\ orderbook' = r.book
           ELSE UNCHANGED bookVars
        /\ last' = [op |-> "cancel_order", err |-> r.err, key |-> k,
                    by_owner |-> (orders[k].owner = caller),
                    full |-> (orders[k].filled_qty = orders[k].qty)]
        /\ UNCHANGED <<now, binVars, multiVars>>

-----------------------------------------------------------------------------
(* Multi-choice market: inputs and instructions *)

AnswerCounts == {2, 3}
MultiBuyAmounts == {0, 50, 100}
MultiSellAmounts == {0, 100}
MultiMinOuts == {0, 200}
SplitAmounts == {0, 100}

\* Sequences of length at most n over the set S.
SeqsUpTo(S, n) == UNION {[1..k -> S] : k \in 0..n}

\* The remaining_accounts a caller may present on a multi market.
AccountLists == SeqsUpTo({AnswerRef(i) : i \in DOMAIN answers} \cup {OtherRef}, MaxAccounts)

\* Every sibling of the Answer idx is presented exactly once.
AllSiblingsOnce(accts, idx) ==
    \A j \in DOMAIN answers \ {idx} :
        Cardinality({i \in 1..Len(accts) : accts[i] = AnswerRef(j)}) = 1

RECURSIVE SumYesProb(_, _)
SumYesProb(ans, S) ==
    IF S = {} THEN 0
    ELSE LET i == CHOOSE x \in S : TRUE
         IN  CpmmPrice(ans[i].yes_pool, ans[i].no_pool, TRUE) + SumYesProb(ans, S \ {i})

\* Sum of the YES probabilities of all the answers of the market, in bps.
ProbSum(ans) == SumYesProb(ans, DOMAIN ans)

\* The answers other than idx that the accounts presented name.
SiblingsIn(accts, idx) ==
    {accts[i].id : i \in {j \in 1..Len(accts) : accts[j].kind = "answer"}} \ {idx}

\* Fewer accounts are presented than the market has siblings of an answer.
Few(accts) == Len(accts) < mm.answer_count - 1

\* The amount is more than a quarter of what the two pools of the answer hold.
OverQuarter(answer, amount) == amount > (answer.yes_pool + answer.no_pool) \div 4

\* What a trade on the answer idx had written when it stopped with result r.
WroteMulti(r, idx) ==
    (IF r.orders # orders THEN {"orders"} ELSE {})
    \cup (IF r.answers[idx] # answers[idx] THEN {"traded"} ELSE {})
    \cup (IF \E j \in DOMAIN answers \ {idx} : r.answers[j] # answers[j] THEN {"siblings"} ELSE {})

\* One buy_multi transaction, in either build.
BuyMultiTx(idx, outcome, amount, min_shares_out, accts) ==
    /\ mm.initialized
    /\ \E r \in Builds(buy_multi(mm, answers, InitIfNeeded(position), orders, orderbook, idx, outcome, amount, min_shares_out, accts)) :
           IF r.err = "Ok"
           THEN /\ mm' = r.mm
                /\ answers' = r.answers
                /\ position' = r.position
                /\ orders' = r.orders
                /\ last' = [op |-> "buy_multi", err |-> "Ok", idx |-> idx, outcome |-> outcome,
                             complete |-> AllSiblingsOnce(accts, idx), amount |-> amount,
                             out |-> r.out, filled |-> r.filled, remaining |-> r.remaining,
                             over_quarter |-> OverQuarter(answers[idx], amount),
                             few |-> Few(accts), valid |-> SiblingsIn(accts, idx),
                             wide |-> Overflows(ExactSharesOut(answers[idx].yes_pool, answers[idx].no_pool,
                                                               r.filled, r.remaining, outcome))]
                /\ UNCHANGED <<now, binVars, orderbook, tokens>>
           ELSE /\ last' = [op |-> "buy_multi", err |-> r.err, zero |-> amount = 0,
                             over_quarter |-> OverQuarter(answers[idx], amount),
                             few |-> Few(accts),
                             wrote |-> IF r.err = "SlippageExceeded" THEN WroteMulti(r, idx) ELSE {}]
                /\ answers' = IF r.err = "SlippageExceeded" THEN Reverted(answers, r.answers) ELSE answers
                /\ orders' = IF r.err = "SlippageExceeded" THEN Reverted(orders, r.orders) ELSE orders
                /\ UNCHANGED <<now, binVars, orderbook, mm, position, tokens>>

\* buy_multi while the volume traded is within the bound of the model
BuyMulti(idx, outcome, amount, min_shares_out, accts) ==
    /\ mm.volume + amount <= MaxMultiVolume
    /\ BuyMultiTx(idx, outcome, amount, min_shares_out, accts)

SellMulti(idx, outcome, shares_to_sell, min_payout, accts) ==
    /\ mm.initialized
    /\ mm.volume < MaxMultiVolume
    /\ LET r == sell_multi(mm, answers, InitIfNeeded(position), orders, orderbook, idx, outcome, shares_to_sell, min_payout, accts)
       IN  IF r.err = "Ok"
           THEN /\ mm' = r.mm
                /\ answers' = r.answers
                /\ position' = r.position
                /\ orders' = r.orders
                /\ last' = [op |-> "sell_multi", err |-> "Ok", idx |-> idx, outcome |-> outcome,
                             complete |-> AllSiblingsOnce(accts, idx), amount |-> shares_to_sell,
                             out |-> r.out, filled |-> r.filled, remaining |-> r.remaining,
                             short |-> FALSE,
                             over_quarter |-> OverQuarter(answers[idx], shares_to_sell),
                             few |-> Few(accts), valid |-> SiblingsIn(accts, idx)]
                /\ UNCHANGED <<now, binVars, orderbook, tokens>>
           ELSE /\ last' = [op |-> "sell_multi", err |-> r.err, zero |-> shares_to_sell = 0,
                             short |-> (shares_to_sell > (IF outcome THEN position.yes_shares[idx]
                                                          ELSE position.no_shares[idx])),
                             over_quarter |-> OverQuarter(answers[idx], shares_to_sell),
                             few |-> Few(accts),
                             wrote |-> IF r.err = "SlippageExceeded" THEN WroteMulti(r, idx) ELSE {}]
                /\ answers' = IF r.err = "SlippageExceeded" THEN Reverted(answers, r.answers) ELSE answers
                /\ orders' = IF r.err = "SlippageExceeded" THEN Reverted(orders, r.orders) ELSE orders
                /\ UNCHANGED <<now, binVars, orderbook, mm, position, tokens>>

RebalanceMarket(idx, accts) ==
    /\ mm.initialized
    /\ LET r == rebalance_market(mm, answers, idx, accts)
       IN  IF r.err = "Ok"
           THEN /\ answers' = r.answers
                /\ position' = InitIfNeeded(position)
                /\ last' = [op |-> "rebalance_market", err |-> "Ok", idx |-> idx, accts |-> accts,
                             complete |-> AllSiblingsOnce(accts, idx), before |-> answers,
                             few |-> Few(accts), valid |-> SiblingsIn(accts, idx)]
                /\ UNCHANGED <<now, binVars, bookVars, mm, tokens>>
           ELSE /\ last' = [op |-> "rebalance_market", err |-> r.err, few |-> Few(accts)]
                /\ UNCHANGED <<now, binVars, bookVars, multiVars>>

SetMultiMarketConfig(caller, is_one_winner, fee_bps, resolution_time) ==
    LET r == set_multi_market_config(mm, caller, is_one_winner, fee_bps, resolution_time)
    IN  /\ mm.initialized
        /\ mm' = IF r.err = "Ok" THEN r.mm ELSE mm
        /\ last' = [op |-> "set_multi_market_config", err |-> r.err,
                    by_creator |-> (caller = mm.creator), fee_bps |-> fee_bps]
        /\ UNCHANGED <<now, binVars, bookVars, answers, position, tokens>>

SplitPosition(idx, amount) ==
    /\ mm.initialized
    /\ position.exists
    /\ LET r == split_position(position, tokens, idx, amount)
       IN  IF r.err = "Ok"
           THEN /\ position' = r.position
                /\ tokens' = r.tokens
                /\ last' = [op |-> "split_position", err |-> "Ok", idx |-> idx, amount |-> amount,
                             before |-> [position |-> position, tokens |-> tokens]]
                /\ UNCHANGED <<now, binVars, bookVars, mm, answers>>
           ELSE /\ last' = [op |-> "split_position", err |-> r.err]
                /\ UNCHANGED <<now, binVars, bookVars, multiVars>>

MergePositions(idx, amount) ==
    /\ mm.initialized
    /\ position.exists
    /\ LET r == merge_positions(position, tokens, idx, amount)
           lacking == position.yes_shares[idx] < amount \/ position.no_shares[idx] < amount
       IN  IF r.err = "Ok"
           THEN /\ position' = r.position
                /\ tokens' = r.tokens
                /\ last' = [op |-> "merge_positions", err |-> "Ok", idx |-> idx, amount |-> amount,
                             lacking |-> lacking]
                /\ UNCHANGED <<now, binVars, bookVars, mm, answers>>
           ELSE /\ last' = [op |-> "merge_positions", err |-> r.err, idx |-> idx, amount |-> amount,
                             lacking |-> lacking]
                /\ UNCHANGED <<now, binVars, bookVars, multiVars>>

ConvertPositions(index_set, amount) ==
    /\ mm.initialized
    /\ position.exists
    /\ LET r == convert_positions(mm, position, tokens, index_set, amount)
           flags == [in_range |-> index_set \in 1..(2 ^ mm.answer_count - 1),
                     zero |-> amount = 0, no_set |-> index_set = 0,
                     lacking |-> \E i \in DOMAIN answers : Bit(index_set, i) /\ position.no_shares[i] < amount,
                     holding |-> \E i \in DOMAIN answers : Bit(index_set, i) /\ position.no_shares[i] >= amount]
       IN  IF r.err = "Ok"
           THEN /\ position' = r.position
                /\ tokens' = r.tokens
                /\ last' = [op |-> "convert_positions", err |-> "Ok", index_set |-> index_set,
                             amount |-> amount, flags |-> flags]
                /\ UNCHANGED <<now, binVars, bookVars, mm, answers>>
           ELSE /\ last' = [op |-> "convert_positions", err |-> r.err, flags |-> flags]
                /\ UNCHANGED <<now, binVars, bookVars, multiVars>>

ResolveAnswer(idx, resolver, outcome) ==
    /\ mm.initialized
    /\ LET r == resolve_answer(mm, answers, idx, now, resolver, outcome)
       IN  IF r.err = "Ok"
           THEN /\ mm' = r.mm
                /\ answers' = r.answers
                /\ last' = [op |-> "resolve_answer", err |-> "Ok", idx |-> idx, outcome |-> outcome]
                /\ UNCHANGED <<now, binVars, bookVars, position, tokens>>
           ELSE /\ last' = [op |-> "resolve_answer", err |-> r.err, idx |-> idx, outcome |-> outcome]
                /\ UNCHANGED <<now, binVars, bookVars, multiVars>>

ClaimMultiWinnings(with_vault) ==
    /\ mm.initialized
    /\ position.exists
    /\ LET r == claim_multi_winnings(mm, position, tokens, with_vault)
       IN  IF r.err = "Ok"
           THEN /\ position' = r.position
                /\ tokens' = r.tokens
                /\ last' = [op |-> "claim_multi_winnings", with_vault |-> with_vault, err |-> "Ok",
                             payout |-> r.payout, before |-> position]
                /\ UNCHANGED <<now, binVars, bookVars, mm, answers>>
           ELSE /\ last' = [op |-> "claim_multi_winnings", with_vault |-> with_vault, err |-> r.err]
                /\ UNCHANGED <<now, binVars, bookVars, multiVars>>

-----------------------------------------------------------------------------
(* Initial states and specifications *)

NoMultiMarket == [initialized |-> FALSE]
NoMultiPosition == [exists |-> FALSE, yes_shares |-> ZeroShares, no_shares |-> ZeroShares]

InitCommon ==
    /\ now = 0
    /\ user_position = NoPosition
    /\ orders = [k \in OrderIds |-> NoOrder]
    /\ orderbook = NoBook
    /\ mm = NoMultiMarket
    /\ answers = <<>>
    /\ position = NoMultiPosition
    /\ tokens = [vault |-> 0, user |-> UserFunds, fee_vault |-> 0]
    /\ last = [op |-> "init", err |-> "Ok"]

\* Before create_market.
InitBinary ==
    /\ InitCommon
    /\ market = NoMarket

NextBinary ==
    \/ Tick
    \/ \E q \in QuestionLens, t \in 1..MaxTime, l \in Liquidities : CreateMarket(q, t, l)
    \/ \E o \in BOOLEAN, a \in BuyAmounts, m \in MinOuts, c \in CandLists(orders) : BuyShares(o, a, m, c)
    \/ \E o \in BOOLEAN, a \in SellAmounts, m \in MinOuts, c \in CandLists(orders) : SellShares(o, a, m, c)
    \/ \E v \in BOOLEAN, f \in BOOLEAN : ClaimWinnings(v, f)
    \/ \E c \in Callers, o \in BOOLEAN : ResolveMarket(c, o)

SpecBinary == InitBinary /\ [][NextBinary]_vars

\* A binary market created with the least liquidity, no order placed yet.
InitBook ==
    /\ InitCommon
    /\ market = create_market(NoMarket, 0, MaxQuestionLen, MaxTime, MinLiquidity).market

NextBook ==
    \/ Tick
    \/ CreateOrderbook
    \/ \E ai \in AnswerIndexes, p \in Prices, q \in Qtys, y \in BOOLEAN, b \in BOOLEAN, c \in CandLists(orders) : PlaceOrder(ai, p, q, y, b, c)
    \/ \E k \in OrderIds, c \in Callers : CancelOrder(k, c)

SpecBook == InitBook /\ [][NextBook]_vars

\* A multi-choice market as create_multi_market and add_answer leave it:
\* every answer added with the least liquidity, nobody holds a position.
ConstructedMulti(answer_count, is_one_winner) ==
    create_multi_market(0, answer_count, is_one_winner, MinLiquidity, 0, MaxTime).mm

ConstructedAnswers(m) ==
    [i \in 0..(m.answer_count - 1) |-> add_answer(m, i, MinLiquidity).answer]

InitMulti ==
    /\ now = 0
    /\ market = NoMarket
    /\ user_position = NoPosition
    /\ orders = [k \in OrderIds |-> NoOrder]
    /\ orderbook = NoBook
    /\ \E n \in AnswerCounts, w \in BOOLEAN : mm = ConstructedMulti(n, w)
    /\ answers = ConstructedAnswers(mm)
    /\ position = NoMultiPosition
    /\ tokens = [vault |-> 0, user |-> UserFunds, fee_vault |-> 0]
    /\ last = [op |-> "init", err |-> "Ok"]

NextMulti ==
    \/ \E i \in DOMAIN answers, o \in BOOLEAN, a \in MultiBuyAmounts, c \in AccountLists : BuyMulti(i, o, a, 0, c)
    \/ \E i \in DOMAIN answers, o \in BOOLEAN, a \in MultiSellAmounts, c \in AccountLists : SellMulti(i, o, a, 0, c)
    \/ \E i \in DOMAIN answers, a \in SplitAmounts : SplitPosition(i, a)

SpecMulti == InitMulti /\ [][NextMulti]_vars

\* Pool states (yes_pool, no_pool) of an Answer.  Trading moves a pool away
\* from the state add_answer gives it: buy_multi adds the amount to one pool,
\* sell_multi takes the payout out of the other, and a caller who presents
\* accounts that are not siblings keeps the other answers as they are.  The
\* skewed states are those of an answer whose NO side was sold down to one
\* unit and of an answer priced at more than 99%.
PoolStates == {<<200, 100>>, <<100, 100>>, <<20000, 1>>, <<351, 1>>, <<185, 37479>>}

PoolAnswer(ps) ==
    [no_pool |-> ps[2], yes_pool |-> ps[1], volume |-> 0, resolved |-> FALSE, outcome |-> None]

\* A one-winner market whose answers are in any of the pool states above.
InitRebalance ==
    /\ now = 0
    /\ market = NoMarket
    /\ user_position = NoPosition
    /\ orders = [k \in OrderIds |-> NoOrder]
    /\ orderbook = NoBook
    /\ \E n \in AnswerCounts : mm = ConstructedMulti(n, TRUE)
    /\ \E f \in [0..(mm.answer_count - 1) -> PoolStates] :
           answers = [i \in 0..(mm.answer_count - 1) |-> PoolAnswer(f[i])]
    /\ position = NoMultiPosition
    /\ tokens = [vault |-> 0, user |-> UserFunds, fee_vault |-> 0]
    /\ last = [op |-> "init", err |-> "Ok"]

\* One rebalance_market call on each starting distribution.
NextRebalance ==
    /\ last.op = "init"
    /\ \E i \in DOMAIN answers, c \in AccountLists : RebalanceMarket(i, c)

SpecRebalance == InitRebalance /\ [][NextRebalance]_vars

\* A binary market and a multi-choice market side by side, trading only.
InitPools ==
    /\ now = 0
    /\ market = create_market(NoMarket, 0, MaxQuestionLen, MaxTime, MinLiquidity).market
    /\ user_position = NoPosition
    /\ orders = [k \in OrderIds |-> NoOrder]
    /\ orderbook = NoBook
    /\ \E n \in AnswerCounts, w \in BOOLEAN : mm = ConstructedMulti(n, w)
    /\ answers = ConstructedAnswers(mm)
    /\ position = NoMultiPosition
    /\ tokens = [vault |-> 0, user |-> UserFunds, fee_vault |-> 0]
    /\ last = [op |-> "init", err |-> "Ok"]

NextPools ==
    \/ \E o \in BOOLEAN : BuyShares(o, 100, 0, <<>>)
    \/ \E o \in BOOLEAN : SellShares(o, 100, 0, <<>>)
    \/ \E i \in DOMAIN answers, o \in BOOLEAN, c \in {<<>>, <<AnswerRef(0), AnswerRef(1)>>} : BuyMulti(i, o, 50, 0, c)
    \/ \E i \in DOMAIN answers, o \in BOOLEAN, c \in {<<>>, <<AnswerRef(0), AnswerRef(1)>>} : SellMulti(i, o, 100, 0, c)

SpecPools == InitPools /\ [][NextPools]_vars

NextResolve ==
    \/ Tick
    \/ \E i \in DOMAIN answers, o \in BOOLEAN : BuyMulti(i, o, 50, 0, <<>>)
    \/ \E i \in DOMAIN answers, a \in SplitAmounts : SplitPosition(i, a)
    \/ \E i \in DOMAIN answers, o \in BOOLEAN : SellMulti(i, o, 100, 0, <<>>)
    \/ \E i \in DOMAIN answers, c \in Callers, o \in BOOLEAN : ResolveAnswer(i, c, o)
    \/ \E v \in BOOLEAN : ClaimMultiWinnings(v)

SpecResolve == InitMulti /\ [][NextResolve]_vars

\* The shares the instruction before gave the trader, if it was a buy.
ReceivedByLastBuy(op) ==
    IF last.op = op /\ last.err = "Ok" THEN {last.out} ELSE {}

\* One trade on the market as constructed and then the sale of what it gave
\* or a rebalance, or a rebalance of the market as constructed, with any
\* accounts presented: siblings, the traded answer itself, accounts of
\* somebody else, too few or enough of them.
NextSiblings ==
    \/ /\ last.op = "init"
       /\ \E i \in DOMAIN answers, o \in BOOLEAN, c \in AccountLists : BuyMulti(i, o, 50, 0, c)
    \/ \E i \in DOMAIN answers, o \in BOOLEAN, a \in ReceivedByLastBuy("buy_multi"), c \in AccountLists :
          SellMulti(i, o, a, 0, c)
    \/ /\ last.op = "init" \/ (last.op = "buy_multi" /\ last.err = "Ok")
       /\ \E i \in DOMAIN answers, c \in AccountLists : RebalanceMarket(i, c)

SpecSiblings == InitMulti /\ [][NextSiblings]_vars

\* A market whose book is being filled: a binary market with its orderbook
\* created, or a multi-choice market.
InitCapacity ==
    /\ now = 0
    /\ user_position = NoPosition
    /\ orders = [k \in 1..MaxBookOrders |-> NoOrder]
    /\ \/ /\ market = create_market(NoMarket, 0, MaxQuestionLen, MaxTime, MinLiquidity).market
          /\ orderbook = create_orderbook(NoBook)
          /\ mm = NoMultiMarket
          /\ answers = <<>>
       \/ /\ market = NoMarket
          /\ orderbook = NoBook
          /\ mm = ConstructedMulti(MinAnswers, FALSE)
          /\ answers = ConstructedAnswers(mm)
    /\ position = NoMultiPosition
    /\ tokens = [vault |-> 0, user |-> UserFunds, fee_vault |-> 0]
    /\ last = [op |-> "init", err |-> "Ok"]

\* One trader rests a NO sell order and then YES buy orders, one after the
\* other, presenting the sell order as candidate or nothing; the first two
\* orders may be cancelled.
NextCapacity ==
    \/ \E q \in Qtys, c \in {<<>>, <<1>>} :
          /\ (orders[1].state = "none" => c = <<>>)
          /\ (orders[1].state # "none" => q = 50)
          /\ PlaceOrder(None, 4000, q, orders[1].state # "none", orders[1].state # "none", c)
    \/ \E q \in Qtys, c \in {<<>>, <<1>>} :
          /\ (orders[1].state = "none" => c = <<>>)
          /\ (orders[1].state # "none" => q = 50)
          /\ PlaceMultiOrder(0, 4000, q, orders[1].state # "none", orders[1].state # "none", c)
    \/ \E k \in 1..2, c \in Callers : CancelOrder(k, c)

SpecCapacity == InitCapacity /\ [][NextCapacity]_vars

\* Trading on a market that charges no fee or 250 bps: a binary market whose
\* creator set the fee, or a multi-choice market created with it.
TradeFeeBps == {0, 250}
TradeBuyAmounts == {0, 100}
TradeMultiBuyAmounts == {50, 51, 100}
TradeSellAmounts == {100}

InitTrade ==
    /\ now = 0
    /\ user_position = NoPosition
    /\ orders = [k \in OrderIds |-> NoOrder]
    /\ orderbook = NoBook
    /\ \E f \in TradeFeeBps :
        \/ /\ market = set_market_fees(create_market(NoMarket, 0, MaxQuestionLen, MaxTime, MinLiquidity).market,
                                       "creator", f, 0, 0, 0).market
           /\ mm = NoMultiMarket
           /\ answers = <<>>
        \/ /\ market = NoMarket
           /\ \E n \in AnswerCounts, w \in BOOLEAN :
                  mm = create_multi_market(0, n, w, MinLiquidity, f, MaxTime).mm
           /\ answers = ConstructedAnswers(mm)
    /\ position = NoMultiPosition
    /\ tokens = [vault |-> 0, user |-> UserFunds, fee_vault |-> 0]
    /\ last = [op |-> "init", err |-> "Ok"]

NextTrade ==
    \/ \E o \in BOOLEAN, a \in TradeBuyAmounts : BuyShares(o, a, 0, <<>>)
    \/ \E o \in BOOLEAN, a \in TradeSellAmounts \cup ReceivedByLastBuy("buy_shares") : SellShares(o, a, 0, <<>>)
    \/ \E i \in DOMAIN answers, o \in BOOLEAN, a \in TradeMultiBuyAmounts, c \in {<<>>, <<AnswerRef(0), AnswerRef(1)>>} :
          BuyMulti(i, o, a, 0, c)
    \/ \E i \in DOMAIN answers, o \in BOOLEAN, a \in TradeSellAmounts \cup ReceivedByLastBuy("buy_multi"), c \in {<<>>, <<AnswerRef(0), AnswerRef(1)>>} :
          SellMulti(i, o, a, 0, c)

SpecTrade == InitTrade /\ [][NextTrade]_vars

\* A multi-choice market created with no fee or with 250 bps; the trader
\* holds collateral for two splits.
InitPositions ==
    /\ now = 0
    /\ market = NoMarket
    /\ user_position = NoPosition
    /\ orders = [k \in OrderIds |-> NoOrder]
    /\ orderbook = NoBook
    /\ \E f \in TradeFeeBps, n \in AnswerCounts, w \in BOOLEAN :
           mm = create_multi_market(0, n, w, MinLiquidity, f, MaxTime).mm
    /\ answers = ConstructedAnswers(mm)
    /\ position = NoMultiPosition
    /\ tokens = [vault |-> 0, user |-> 2 * UserFunds, fee_vault |-> 0]
    /\ last = [op |-> "init", err |-> "Ok"]

\* While the market is open, one buy from the pools, splits, merges and
\* conversions; then the creator resolves the answers one after the other
\* and a conversion is tried on the resolved market.  The index sets passed
\* to convert_positions are 0, every set of the answers of a market of
\* three, and 8, a bit above them.
NextPositions ==
    \/ /\ mm.volume = 0 /\ now = 0
       /\ \E i \in DOMAIN answers, o \in BOOLEAN, c \in {<<>>, <<AnswerRef(0), AnswerRef(1)>>} : BuyMulti(i, o, 50, 0, c)
    \/ /\ now = 0
       /\ \E i \in DOMAIN answers, a \in SplitAmounts : SplitPosition(i, a)
    \/ /\ now = 0
       /\ \E i \in DOMAIN answers, a \in {0, 50, 100} : MergePositions(i, a)
    \/ /\ now = 0 \/ mm.resolved
       /\ \E x \in 0..8, a \in {0, 50, 100} : ConvertPositions(x, a)
    \/ Tick
    \/ \E i \in DOMAIN answers \cap {mm.answers_resolved} : ResolveAnswer(i, "creator", FALSE)

SpecPositions == InitPositions /\ [][NextPositions]_vars

\* Orders rested on the book of the binary market, and trades on either
\* market that set a least result the pools cannot give, presenting the
\* resting orders or the sibling answers.
NextSlippage ==
    \/ CreateOrderbook
    \/ \E b \in BOOLEAN : PlaceOrder(None, IF b THEN 6000 ELSE 4000, 50, FALSE, b, <<>>)
    \/ \E m \in MinOuts, c \in {<<>>, <<1>>, <<2, 1>>} : BuyShares(TRUE, 100, m, c)
    \/ \E m \in MinOuts, c \in {<<>>, <<1>>, <<2, 1>>} : SellShares(TRUE, 100, m, c)
    \/ \E i \in DOMAIN answers, o \in BOOLEAN, m \in MultiMinOuts, c \in {<<>>, <<AnswerRef(0), AnswerRef(1)>>} :
          BuyMulti(i, o, 50, m, c)
    \/ \E i \in DOMAIN answers, o \in BOOLEAN, a \in TradeSellAmounts \cup ReceivedByLastBuy("buy_multi"), m \in MultiMinOuts, c \in {<<>>, <<AnswerRef(0), AnswerRef(1)>>} :
          SellMulti(i, o, a, m, c)

SpecSlippage == InitTrade /\ [][NextSlippage]_vars

\* add_answer called for a slot of another market of answer_count answers:
\* the Answer account it would initialize is reported, the accounts of this
\* market stay as they are.
AddAnswer(answer_count, index, initial_liquidity) ==
    /\ mm.initialized
    /\ LET r == add_answer([mm EXCEPT !.answer_count = answer_count], index, initial_liquidity)
       IN  last' = IF r.err = "Ok"
                   THEN [op |-> "add_answer", err |-> "Ok", answer_count |-> answer_count,
                         amount |-> initial_liquidity, answer |-> r.answer]
                   ELSE [op |-> "add_answer", err |-> r.err, answer_count |-> answer_count,
                         amount |-> initial_liquidity]
    /\ UNCHANGED <<now, binVars, bookVars, multiVars>>

\* Markets funded with a large part of what a u64 holds: a binary market
\* with a quarter of U64Max in each pool, and a multi-choice market of n
\* independent answers, each added with U64Max / (n + 1).
WideLiquidity(n) == U64Max \div (n + 1)

InitWide ==
    /\ now = 0
    /\ market = create_market(NoMarket, 0, MaxQuestionLen, MaxTime, WideLiquidity(3)).market
    /\ user_position = NoPosition
    /\ orders = [k \in OrderIds |-> NoOrder]
    /\ orderbook = NoBook
    /\ \E n \in AnswerCounts : mm = ConstructedMulti(n, FALSE)
    /\ answers = [i \in 0..(mm.answer_count - 1) |->
                     add_answer(mm, i, WideLiquidity(mm.answer_count)).answer]
    /\ position = NoMultiPosition
    /\ tokens = [vault |-> 0, user |-> UserFunds, fee_vault |-> 0]
    /\ last = [op |-> "init", err |-> "Ok"]

\* Trades as large as the pools admit, a resting order of three quarters of
\* U64Max, resolution and the claim.  The two markets do not depend on each
\* other: each is traded while the other is as created.
BinaryUntouched == market.total_volume = 0 /\ ~orderbook.exists
MultiUntouched == mm.volume = 0 /\ now = 0

NextWide ==
    \/ /\ BinaryUntouched
       /\ Tick
    \/ /\ MultiUntouched
       /\ CreateOrderbook
    \/ /\ MultiUntouched /\ orders[1].state = "none"
       /\ PlaceOrder(None, 4000, 3 * WideLiquidity(3), FALSE, FALSE, <<>>)
    \/ /\ MultiUntouched
       /\ \E o \in BOOLEAN, a \in {WideLiquidity(3), 3 * WideLiquidity(3)}, c \in {<<>>, <<1>>} :
             BuySharesTx(o, a, 0, c)
    \/ /\ BinaryUntouched
       /\ \E i \in DOMAIN answers, o \in BOOLEAN :
             BuyMultiTx(i, o, MaxTrade(answers[i].yes_pool + answers[i].no_pool), 0, <<>>)
    \/ /\ BinaryUntouched
       /\ \E i \in DOMAIN answers \cap {mm.answers_resolved} : ResolveAnswer(i, "creator", TRUE)
    \/ /\ BinaryUntouched
       /\ \E w \in BOOLEAN : ClaimMultiWinnings(w)
    \/ /\ BinaryUntouched /\ MultiUntouched
       /\ \E n \in AnswerCounts, l \in {MinLiquidity - 1, MinLiquidity, U64Max \div 2, U64Max} :
             AddAnswer(n, 0, l)

SpecWide == InitWide /\ [][NextWide]_vars

\* The life of a binary market around its resolution: trading, orders,
\* resolution attempts by the creator and by somebody else, before and
\* after resolution_time, and claims.
NextFinal ==
    \/ Tick
    \/ CreateOrderbook
    \/ \E b \in BOOLEAN : PlaceOrder(None, IF b THEN 6000 ELSE 4000, 50, FALSE, b, <<>>)
    \/ \E c \in {<<>>, <<1>>} : BuyShares(TRUE, 100, 0, c)
    \/ \E c \in {<<>>, <<1>>} : SellShares(TRUE, 100, 0, c)
    \/ \E c \in Callers, o \in BOOLEAN : ResolveMarket(c, o)
    \/ \E v \in BOOLEAN, f \in BOOLEAN : ClaimWinnings(v, f)

SpecFinal == InitBook /\ [][NextFinal]_vars



\* Fee rates a caller may pass, in bps; the last is the greatest u16.
FeeBpsInputs == {0, 250, 1000, 65535}
CreatorFeeBpsInputs == {0, 500}
PlatformFeeBpsInputs == {0, 250}
LiquidityFeeBpsInputs == {0, 501}
MultiFeeBpsInputs == {0, 250, 1000, 1001, 20000}

\* A binary market or a multi-choice market as created, then configured by
\* its creator (or by somebody else) and traded.
InitFees ==
    /\ now = 0
    /\ user_position = NoPosition
    /\ orders = [k \in OrderIds |-> NoOrder]
    /\ orderbook = NoBook
    /\ \/ /\ market = create_market(NoMarket, 0, MaxQuestionLen, MaxTime, MinLiquidity).market
          /\ mm = NoMultiMarket
          /\ answers = <<>>
       \/ /\ market = NoMarket
          /\ \E n \in AnswerCounts, w \in BOOLEAN : mm = ConstructedMulti(n, w)
          /\ answers = ConstructedAnswers(mm)
    /\ position = NoMultiPosition
    /\ tokens = [vault |-> 0, user |-> UserFunds, fee_vault |-> 0]
    /\ last = [op |-> "init", err |-> "Ok"]

NextFees ==
    \/ \E c \in Callers, f \in FeeBpsInputs, cf \in CreatorFeeBpsInputs, pf \in PlatformFeeBpsInputs, lf \in LiquidityFeeBpsInputs :
          SetMarketFees(c, f, cf, pf, lf)
    \/ \E o \in BOOLEAN : BuyShares(o, MaxVolume, 0, <<>>)
    \/ \E o \in BOOLEAN : SellShares(o, 100, 0, <<>>)
    \/ \E c \in Callers, w \in BOOLEAN, f \in MultiFeeBpsInputs : SetMultiMarketConfig(c, w, f, MaxTime)
    \/ \E i \in DOMAIN answers, o \in BOOLEAN, c \in {<<>>, <<AnswerRef(0), AnswerRef(1)>>} : BuyMulti(i, o, 50, 0, c)
    \/ \E i \in DOMAIN answers, o \in BOOLEAN, c \in {<<>>, <<AnswerRef(0), AnswerRef(1)>>} : SellMulti(i, o, 100, 0, c)

SpecFees == InitFees /\ [][NextFees]_vars

\* calculate_fee on its own: the inputs.
FeeAmounts == 0..(2 ^ FeeWordBits - 1)
FeeRates == {0, 1, 250, 1000, 1001, 10000, 10001, 65535}

InitFeeFn ==
    /\ now = 0
    /\ market = NoMarket
    /\ user_position = NoPosition
    /\ orders = [k \in OrderIds |-> NoOrder]
    /\ orderbook = NoBook
    /\ mm = NoMultiMarket
    /\ answers = <<>>
    /\ position = NoMultiPosition
    /\ tokens = [vault |-> 0, user |-> UserFunds, fee_vault |-> 0]
    /\ \E a \in FeeAmounts, f \in FeeRates :
           last = [op |-> "init", err |-> "Ok", amount |-> a, fee_bps |-> f]

CalculateFee ==
    /\ last.op = "init"
    /\ last' = [op |-> "calculate_fee", err |-> "Ok", amount |-> last.amount,
                fee_bps |-> last.fee_bps, fee |-> calculate_fee(last.amount, last.fee_bps)]
    /\ UNCHANGED <<now, binVars, bookVars, multiVars>>

NextFeeFn == CalculateFee

SpecFeeFn == InitFeeFn /\ [][NextFeeFn]_vars

-----------------------------------------------------------------------------
(* Properties *)

\* The pool states (yes_pool, no_pool) present in a state: the binary market's
\* and every answer's.
PoolsInState ==
    (IF market.initialized THEN {<<market.yes_pool, market.no_pool>>} ELSE {})
    \cup {<<answers[i].yes_pool, answers[i].no_pool>> : i \in DOMAIN answers}

PriceSum(ps) == CpmmPrice(ps[1], ps[2], TRUE) + CpmmPrice(ps[1], ps[2], FALSE)

C2_RebalancedSumExact ==
    (last.op = "rebalance_market" /\ last.err = "Ok" /\ last.complete /\ mm.is_one_winner)
        => ProbSum(answers) = BPS

\* C3 as stated: after a successful buy_multi or sell_multi on a one-winner
\* market, on either side, with every sibling supplied, the YES probabilities
\* of all the answers sum to within 100 bps of 10000.
C3_TradeKeepsSum ==
    (last.op \in {"buy_multi", "sell_multi"} /\ last.err = "Ok" /\ last.complete /\ mm.is_one_winner)
        => Abs(ProbSum(answers) - BPS) < RoundingWindow

\* C4: create_market leaves both pools equal to initial_liquidity, which is
\* at least 100, and in every state of a created binary market, whatever was
\* bought and sold, both pools are positive.
C4_PoolsPositive ==
    /\ (last.op = "create_market" /\ last.err = "Ok") =>
            /\ last.amount >= MinLiquidity
            /\ market.yes_pool = last.amount
            /\ market.no_pool = last.amount
    /\ market.initialized => (market.yes_pool > 0 /\ market.no_pool > 0)

\* A sell that took a payout out of a pool.
C4_Witness ==
    /\ last.op = "sell_shares" /\ last.err = "Ok" /\ last.out > 0
    /\ market.yes_pool # market.no_pool

\* C5 as stated: a successful rebalance leaves yes_pool + no_pool of every
\* answer as it was before.
C5_TotalsPreserved ==
    (last.op = "rebalance_market" /\ last.err = "Ok") =>
        \A i \in DOMAIN answers :
            answers[i].yes_pool + answers[i].no_pool
                = last.before[i].yes_pool + last.before[i].no_pool

\* C6 as stated: in a one-winner market at most one answer has outcome true,
\* and resolve_answer(true) does not succeed when another answer already
\* resolved true.
C6_OneWinner ==
    mm.is_one_winner =>
        /\ Cardinality({i \in DOMAIN answers : answers[i].outcome = Some(TRUE)}) <= 1
        /\ (last.op = "resolve_answer" /\ last.outcome
             /\ \E j \in DOMAIN answers \ {last.idx} : answers[j].outcome = Some(TRUE))
                => last.err # "Ok"

IsBinaryClaim == last.op \in {"claim_winnings", "claim_winnings_with_vault"}

WinningShares(m, pos) == IF m.outcome THEN pos.yes_shares ELSE pos.no_shares

\* The outcome of one binary claim, from the position it was called on.
ClaimOutcome ==
    IsBinaryClaim =>
        /\ ~market.resolved => last.err = "MarketNotResolved"
        /\ (market.resolved /\ WinningShares(market, last.before) = 0)
               => last.err = "NoWinningShares"
        /\ (market.resolved /\ WinningShares(market, last.before) > 0
            /\ (last.op = "claim_winnings_with_vault" => last.funded))
               => /\ last.err = "Ok"
                  /\ last.payout = WinningShares(market, last.before)
                  /\ user_position.yes_shares = 0
                  /\ user_position.no_shares = 0
        /\ last.err # "Ok" => user_position = last.before

RECURSIVE SumWinningSide(_, _, _)
SumWinningSide(pos, ans, S) ==
    IF S = {} THEN 0
    ELSE LET i == CHOOSE x \in S : TRUE
         IN  (IF ans[i].outcome = Some(TRUE) THEN pos.yes_shares[i] ELSE pos.no_shares[i])
             + SumWinningSide(pos, ans, S \ {i})

\* C8 as stated: claim_multi_winnings_with_vault pays the sum, over the
\* answers, of the shares held on the side that won that answer.
C8_PaysWinningSide ==
    (last.op = "claim_multi_winnings" /\ last.with_vault /\ last.err = "Ok")
        => last.payout = SumWinningSide(last.before, answers, DOMAIN answers)

\* C9: a buy order of quantity a at limit L placed with, as sole candidate,
\* a compatible resting sell order of price p <= L and available quantity
\* q = qty - filled_qty fills exactly min(a, q): the resting order's
\* filled_qty grows by min(a, q), filled_amount is min(a, q) and
\* remaining_amount is a - min(a, q).
C9_SingleFill ==
    [][(last'.op = "place_order" /\ last'.err = "Ok" /\ Len(last'.cands) = 1
        /\ orders'[last'.key].is_bid
        /\ IsOpen(orders, last'.cands[1])
        /\ ~orders[last'.cands[1]].is_bid
        /\ Compatible(orders[last'.cands[1]], orderbook.market, orders'[last'.key].answer_index,
                      orders'[last'.key].is_yes, TRUE, orders'[last'.key].price))
       => LET o == orders[last'.cands[1]]
              a == orders'[last'.key].qty
              fill == Min(a, o.qty - o.filled_qty)
          IN  /\ o.price <= orders'[last'.key].price
              /\ orders'[last'.cands[1]].filled_qty = o.filled_qty + fill
              /\ last'.filled = fill
              /\ last'.remaining = a - fill
              /\ orders'[last'.key].filled_qty = fill]_vars

\* A resting sell order of 50 at 4000 bps took a fill of 30 from a buy of 30.
C9_Witness ==
    /\ last.op = "place_order" /\ last.err = "Ok" /\ last.cands = <<1>>
    /\ last.filled = 30 /\ last.remaining = 0
    /\ orders[1].state = "open" /\ ~orders[1].is_bid
    /\ orders[1].qty = 50 /\ orders[1].price = 4000 /\ orders[1].filled_qty = 30
    /\ orders[2].is_bid /\ orders[2].qty = 30 /\ orders[2].price >= 4000

\* C10 as stated: cancel_order called by its owner on an order whose
\* filled_qty equals its qty fails with OrderNotFound.
C10_CancelFilledFails ==
    (last.op = "cancel_order" /\ last.by_owner /\ last.full) => last.err = "OrderNotFound"

Queues == {"yes_buy_orders", "yes_sell_orders", "no_buy_orders", "no_sell_orders"}

IsPlacement(l) == l.op \in {"place_order", "place_multi_order"}

\* What matching the placement logged in l against the orders ords fills.
PlacementFill(l, ords, book) ==
    find_matching_orders(ords, l.cands, book.market, l.answer_index, l.is_yes, l.is_bid, l.price, l.qty).filled_amount

\* C11: every queue of the book holds at most 100 order references, and a
\* valid place_order or place_multi_order of an order that matching does not
\* fill completely, into a queue that holds 100, fails with OrderbookFull
\* and leaves the book and every order account, the candidates included, as
\* they were.
C11_QueueCapacity ==
    /\ [](\A b \in Queues : Len(orderbook[b]) <= BookCapacity)
    /\ [][(IsPlacement(last') /\ last'.qty > 0 /\ last'.price > 0 /\ last'.price < BPS
            /\ Len(orderbook[Bucket(last'.is_yes, last'.is_bid)]) = BookCapacity
            /\ PlacementFill(last', orders, orderbook) < last'.qty)
           => (last'.err = "OrderbookFull" /\ UNCHANGED bookVars)]_vars

\* A buy order that its candidate would have filled in part was refused by
\* a full yes-buy queue.
C11_Witness ==
    /\ last.op = "place_order" /\ last.err = "OrderbookFull"
    /\ Len(orderbook.yes_buy_orders) = BookCapacity
    /\ last.cands = <<1>>
    /\ PlacementFill(last, orders, orderbook) = 30

\* The filled quantity of the order accounts with keys in S, added up.
RECURSIVE FilledTotal(_, _)
FilledTotal(ords, S) ==
    IF S = {} THEN 0
    ELSE LET k == CHOOSE x \in S : TRUE
         IN  (IF ords[k].state = "open" THEN ords[k].filled_qty ELSE 0) + FilledTotal(ords, S \ {k})

\* C12: a successful place_order records as filled_qty of the new order the
\* amount matched against the candidates (what their filled quantities grew
\* by); its key is appended at the end of the queue selected by
\* (is_yes, is_bid) if and only if filled_qty < qty; the other three queues
\* and the entries already in the selected queue stay as they were.
C12_PlaceRests ==
    [][(last'.op = "place_order" /\ last'.err = "Ok")
       => LET k == last'.key
              b == Bucket(last'.is_yes, last'.is_bid)
              others == DOMAIN orders \ {k}
              matched == FilledTotal(orders', others) - FilledTotal(orders, others)
          IN  /\ orders'[k].filled_qty = matched
              /\ matched = PlacementFill(last', orders, orderbook)
              /\ orderbook'[b] = IF matched < last'.qty THEN Append(orderbook[b], k) ELSE orderbook[b]
              /\ \A q \in Queues \ {b} : orderbook'[q] = orderbook[q]]_vars

\* A second order came to rest behind the entry already in its queue.
C12_Witness ==
    /\ last.op = "place_order" /\ last.err = "Ok" /\ last.key = 2
    /\ orderbook[Bucket(last.is_yes, last.is_bid)] = <<1, 2>>
    /\ orders[1].state = "open" /\ orders[2].state = "open"

\* C13: every order account has filled_qty <= qty; from one state to the
\* next the filled_qty of an order never decreases; and an order with
\* filled_qty = qty keeps every field as long as the account exists,
\* whatever matching it is presented to as a candidate, once or twice.
C13_FilledMonotone ==
    /\ [](\A k \in DOMAIN orders : orders[k].state = "open" => orders[k].filled_qty <= orders[k].qty)
    /\ [][\A k \in DOMAIN orders :
            (orders[k].state = "open" /\ orders'[k].state = "open")
                => /\ orders'[k].filled_qty >= orders[k].filled_qty
                   /\ orders[k].filled_qty = orders[k].qty => orders'[k] = orders[k]]_vars

\* An order of 30 presented twice to a placement of 50: the first
\* presentation filled it, the second found it full and took nothing.
C13_Witness ==
    /\ last.op = "place_order" /\ last.err = "Ok" /\ last.cands = <<1, 1>>
    /\ last.filled = 30 /\ last.remaining = 20
    /\ orders[1].state = "open" /\ orders[1].qty = 30 /\ orders[1].filled_qty = 30

\* floor(amount * fee_bps / 10000), as an integer of any size
FloorFee(amount, fee_bps) == (amount * fee_bps) \div BPS

MarketFeeSum(m) == m.fee_bps + m.creator_fee_bps + m.platform_fee_bps + m.liquidity_fee_bps

\* C15: set_market_fees called by somebody other than the creator fails
\* with Unauthorized; called by the creator with four fees that sum to more
\* than 1000 it fails with FeesTooHigh; either way the market keeps its
\* four fee fields; otherwise it stores the four fees.  So the four fee
\* fields of a binary market always sum to at most 1000.
C15_FeesCapped ==
    /\ [](market.initialized => MarketFeeSum(market) <= MaxTotalFeeBps)
    /\ [][last'.op = "set_market_fees"
           => LET f == last'.fees
                  total == f[1] + f[2] + f[3] + f[4]
              IN  /\ ~last'.by_creator => (last'.err = "Unauthorized" /\ market' = market)
                  /\ (last'.by_creator /\ total > MaxTotalFeeBps)
                        => (last'.err = "FeesTooHigh" /\ market' = market)
                  /\ (last'.by_creator /\ total <= MaxTotalFeeBps)
                        => /\ last'.err = "Ok"
                           /\ <<market'.fee_bps, market'.creator_fee_bps,
                                 market'.platform_fee_bps, market'.liquidity_fee_bps>> = f]_vars

\* The creator's fees above the cap were refused on a market that already
\* charged fees.
C15_Witness ==
    /\ last.op = "set_market_fees" /\ last.err = "FeesTooHigh" /\ last.by_creator
    /\ market.fee_bps > 0 /\ MarketFeeSum(market) = MaxTotalFeeBps

\* C16 as stated: the fee_bps of a MultiMarket is at most 1000 in every
\* state, and set_multi_market_config with fee_bps > 1000 fails with
\* FeesTooHigh.
C16_MultiFeeCapped ==
    /\ mm.initialized => mm.fee_bps <= MaxTotalFeeBps
    /\ (last.op = "set_multi_market_config" /\ last.by_creator /\ last.fee_bps > MaxTotalFeeBps)
          => last.err = "FeesTooHigh"

\* The pool of an account on the side `outcome`, and on the other side.
SamePool(a, outcome) == IF outcome THEN a.yes_pool ELSE a.no_pool
OppositePool(a, outcome) == IF outcome THEN a.no_pool ELSE a.yes_pool

SideShares(pos, outcome) == IF outcome THEN pos.yes_shares ELSE pos.no_shares

\* C18: on an unresolved market, sell_shares and sell_multi of more shares
\* than the seller holds on that side fail with InsufficientShares and
\* change nothing; a sale that succeeds with an unmatched remainder r pays
\* floor(r * opposite_pool / (same_pool + r)) out of the opposite pool, which
\* decreases by exactly that, leaves the pool of the side sold as it was,
\* and takes exactly shares_to_sell from the seller's shares of that side.
C18_SellEffect ==
    [][/\ (last'.op = "sell_shares" /\ ~market.resolved)
          => LET o == last'.outcome
                 r == last'.remaining
                 payout == (r * OppositePool(market, o)) \div (SamePool(market, o) + r)
             IN  /\ last'.amount > SideShares(user_position, o)
                       => (last'.err = "InsufficientShares" /\ UNCHANGED <<binVars, bookVars>>)
                 /\ last'.err = "Ok"
                       => /\ OppositePool(market', o) = OppositePool(market, o) - payout
                          /\ SamePool(market', o) = SamePool(market, o)
                          /\ SideShares(user_position', o) = SideShares(user_position, o) - last'.amount
                          /\ SideShares(user_position', ~o) = SideShares(user_position, ~o)
       /\ (last'.op = "sell_multi" /\ ~mm.resolved /\ last'.short)
          => (last'.err = "InsufficientShares" /\ UNCHANGED <<multiVars, bookVars>>)
       /\ (last'.op = "sell_multi" /\ ~mm.resolved /\ ~last'.short)
          => LET o == last'.outcome
                 i == last'.idx
                 r == last'.remaining
                 payout == (r * OppositePool(answers[i], o)) \div (SamePool(answers[i], o) + r)
             IN  last'.err = "Ok"
                       => /\ OppositePool(answers'[i], o) = OppositePool(answers[i], o) - payout
                          /\ SamePool(answers'[i], o) = SamePool(answers[i], o)
                          /\ SideShares(position', o) = [SideShares(position, o) EXCEPT ![i] = @ - last'.amount]
                          /\ SideShares(position', ~o) = SideShares(position, ~o)]_vars

\* The 83 YES shares of an answer, bought for 50, were sold back to pools of
\* 100 and 150: the NO pool paid floor(83 * 150 / 183) = 68.
C18_Witness ==
    /\ last.op = "sell_multi" /\ last.err = "Ok" /\ last.outcome
    /\ last.amount = 83 /\ last.remaining = 83 /\ last.out = 68
    /\ answers[last.idx].yes_pool = 100 /\ answers[last.idx].no_pool = 82
    /\ position.yes_shares[last.idx] = 0

\* C19: at zero fee and with no order matched, selling exactly the shares
\* the buy just before credited does not return the amount paid in general.
\* With S0 the pool of the side traded and O0 the other pool before the buy,
\* and A the amount paid, the sale pays more than A only if
\* O0 * (O0 + A) > A * S0, and never more than A otherwise.
C19_RoundTripDirection ==
    (last.op = "sell_shares" /\ last.err = "Ok" /\ last.bought_for > 0
       /\ market.fee_bps = 0 /\ last.filled = 0)
    => LET A == last.bought_for
           S0 == SamePool(market, last.outcome)
           O0 == OppositePool(market, last.outcome) + last.out - A
       IN  /\ last.out > A => O0 * (O0 + A) > A * S0
           /\ O0 * (O0 + A) <= A * S0 => last.out <= A

\* 100 paid for YES on pools of 100 each gave 150 shares; selling the 150
\* paid back 120.
C19_Witness ==
    /\ last.op = "sell_shares" /\ last.err = "Ok" /\ last.bought_for = 100
    /\ last.amount = 150 /\ last.out = 120
    /\ market.fee_bps = 0 /\ last.filled = 0
    /\ market.yes_pool = 100 /\ market.no_pool = 80

\* C20: on an unresolved multi-choice market buy_multi of an amount above
\* floor((yes_pool + no_pool) / 4) of the answer traded fails with
\* TradeTooLarge and changes no pool, position, order or volume; buy_shares
\* has no such limit: it never fails with TradeTooLarge, and a buy of a
\* positive amount fails, if at all, on the slippage test.
C20_TradeLimit ==
    [][/\ (last'.op = "buy_multi" /\ ~mm.resolved /\ last'.over_quarter)
          => (last'.err = "TradeTooLarge" /\ UNCHANGED <<multiVars, bookVars>>)
       /\ (last'.op = "buy_multi" /\ ~mm.resolved /\ ~last'.over_quarter)
          => last'.err # "TradeTooLarge"
       /\ (last'.op = "buy_shares" /\ last'.amount > 0 /\ ~market.resolved)
          => last'.err \in {"Ok", "SlippageExceeded"}]_vars

\* A buy of more than a quarter of the pools was refused on a market whose
\* answers hold 200 each, where 50 is the most that goes through.
C20_Witness ==
    /\ last.op = "buy_multi" /\ last.err = "TradeTooLarge" /\ last.over_quarter
    /\ \A i \in DOMAIN answers : answers[i].yes_pool + answers[i].no_pool = 200

\* A binary buy of 100, half of what the pools held, went through.
BinaryBuyOverQuarter ==
    /\ last.op = "buy_shares" /\ last.err = "Ok" /\ last.amount = 100
    /\ market.yes_pool + market.no_pool - last.remaining = 200

\* C21: on an unresolved multi-choice market sell_multi of more shares than
\* floor((yes_pool + no_pool) / 4) of the answer traded, by a seller who
\* holds them, fails with TradeTooLarge and changes no pool, position, order
\* or volume.
C21_SellTradeLimit ==
    [][(last'.op = "sell_multi" /\ ~mm.resolved /\ ~last'.short /\ last'.over_quarter)
          => (last'.err = "TradeTooLarge" /\ UNCHANGED <<multiVars, bookVars>>)]_vars

\* C22: in a one-winner market, buy_multi, sell_multi and rebalance_market
\* called with fewer than answer_count - 1 accounts never succeed and change
\* no pool, position, order or volume.  rebalance_market fails with
\* MissingSiblings; a trade fails with MissingSiblings unless one of the
\* tests made before the rebalance (resolved, amount, trade size, shares
\* held) has refused it, and never with SlippageExceeded.
C22_MissingSiblings ==
    [][(last'.op \in {"buy_multi", "sell_multi", "rebalance_market"} /\ mm.is_one_winner /\ last'.few)
          => /\ UNCHANGED <<multiVars, bookVars>>
             /\ last'.op = "rebalance_market" => last'.err = "MissingSiblings"
             /\ last'.op = "buy_multi"
                   => last'.err \in {"MissingSiblings", "MarketResolved", "InvalidAmount", "TradeTooLarge"}
             /\ (last'.op = "buy_multi" /\ ~mm.resolved /\ ~last'.over_quarter)
                   => last'.err = "MissingSiblings"
             /\ last'.op = "sell_multi"
                   => last'.err \in {"MissingSiblings", "MarketResolved", "InvalidAmount", "InsufficientShares"}
             /\ (last'.op = "sell_multi" /\ ~mm.resolved /\ ~last'.short)
                   => last'.err = "MissingSiblings"]_vars

\* On a market of three answers, where two accounts are expected, a trade
\* was refused for presenting fewer, after an earlier trade had gone through.
C22_Witness ==
    /\ mm.is_one_winner /\ mm.answer_count = 3 /\ mm.volume > 0
    /\ last.op \in {"buy_multi", "sell_multi"} /\ last.err = "MissingSiblings" /\ last.few

\* C23: in a one-winner market, when at least answer_count - 1 accounts are
\* presented, accounts that are the traded answer itself or not an Answer of
\* this market owned by the program raise no error, and no answer other than
\* the siblings presented is written by the rebalance: rebalance_market
\* succeeds and leaves its anchor and every answer not presented as they
\* were (all of them, when no sibling is presented); a trade moves the
\* traded answer by the trade alone and leaves the answers not presented
\* as they were.
C23_SkippedEntries ==
    [][(last'.op \in {"buy_multi", "sell_multi", "rebalance_market"}
          /\ mm.is_one_winner /\ ~mm.resolved /\ ~last'.few)
          => /\ last'.err # "MissingSiblings"
             /\ last'.op = "rebalance_market" => last'.err = "Ok"
             /\ last'.err = "Ok"
                   => /\ \A j \in DOMAIN answers \ (last'.valid \cup {last'.idx}) : answers'[j] = answers[j]
                      /\ last'.op = "rebalance_market" => answers'[last'.idx] = answers[last'.idx]
                      /\ last'.op # "rebalance_market"
                            => LET i == last'.idx
                                   o == last'.outcome
                                   r == last'.remaining
                               IN  /\ SamePool(answers'[i], o) = SamePool(answers[i], o)
                                   /\ OppositePool(answers'[i], o) =
                                         IF last'.op = "buy_multi" THEN OppositePool(answers[i], o) + r
                                         ELSE OppositePool(answers[i], o)
                                                - ((r * OppositePool(answers[i], o)) \div (SamePool(answers[i], o) + r))]_vars

\* After a trade had moved the pools, a rebalance of a market of three
\* answers was given two accounts, none of them a sibling of the anchor:
\* it succeeded and no answer changed.
C23_Witness ==
    /\ mm.is_one_winner /\ mm.answer_count = 3 /\ mm.volume > 0
    /\ last.op = "rebalance_market" /\ last.err = "Ok" /\ ~last.few /\ last.valid = {}
    /\ answers = last.before

\* C24: merge_positions(amount) right after a successful
\* split_position(amount) on the same answer succeeds, returns exactly
\* amount to the user and leaves the position's YES and NO shares, every
\* answer's pools and the vault balance as they were before the split;
\* merge_positions of a positive amount fails with InsufficientShares and
\* changes nothing when the position holds less than amount of YES or of NO
\* on that answer, and never succeeds otherwise than by burning amount of
\* both and releasing amount.
C24_SplitMerge ==
    [][last'.op = "merge_positions"
          => /\ (last.op = "split_position" /\ last.err = "Ok"
                   /\ last'.idx = last.idx /\ last'.amount = last.amount)
                  => /\ last'.err = "Ok"
                     /\ position' = last.before.position
                     /\ tokens' = last.before.tokens
                     /\ tokens'.user = tokens.user + last'.amount
                     /\ answers' = answers /\ mm' = mm
             /\ (last'.lacking /\ last'.amount > 0)
                  => (last'.err = "InsufficientShares" /\ UNCHANGED <<multiVars, bookVars>>)
             /\ last'.err = "Ok"
                  => /\ ~last'.lacking
                     /\ tokens'.user = tokens.user + last'.amount
                     /\ tokens'.vault = tokens.vault - last'.amount
                     /\ answers' = answers]_vars

\* A position that held shares bought from the pools was split for 100 and
\* merged for 100: the shares bought are what is left and the user holds
\* the collateral again.
C24_Witness ==
    /\ last.op = "merge_positions" /\ last.err = "Ok" /\ last.amount = 100
    /\ tokens.user = 2 * UserFunds /\ tokens.vault = 0
    /\ position.yes_shares[last.idx] > 0 /\ position.no_shares[last.idx] = 0
    /\ mm.volume > 0

C26_ConvertRejects ==
    [][last'.op = "convert_positions"
          => LET f == last'.flags
                 open == mm.is_one_winner /\ ~mm.resolved
             IN  /\ ~mm.is_one_winner => last'.err = "NotOneWinnerMarket"
                 /\ (mm.is_one_winner /\ mm.resolved) => last'.err = "MarketResolved"
                 /\ (open /\ ~f.in_range) => last'.err = "InvalidIndexSet"
                 /\ (open /\ f.in_range /\ ~f.zero /\ f.lacking) => last'.err = "InsufficientShares"
                 /\ (open /\ f.in_range /\ f.zero)
                       => (last'.err = "Ok" /\ UNCHANGED <<multiVars, bookVars>>)
                 /\ last'.err # "Ok" => UNCHANGED <<multiVars, bookVars>>]_vars

\* A conversion was refused for an index set of which one answer held the
\* NO shares and another did not: the shares held are still there.
C26_Witness ==
    /\ last.op = "convert_positions" /\ last.err = "InsufficientShares"
    /\ last.flags.lacking /\ last.flags.holding
    /\ \E i \in DOMAIN answers : position.no_shares[i] >= 100

SlippageAfterRebalance ==
    /\ last.op \in {"buy_multi", "sell_multi"} /\ last.err = "SlippageExceeded"
    /\ {"traded", "siblings"} \subseteq last.wrote

\* C28: no operation stores a wrapped or truncated value.  Whenever the
\* shares due to a buy_shares or buy_multi (matched and from the pool), the
\* sum of the YES shares a claim pays, or the yes_pool of add_answer is more
\* than a u64 holds, the operation fails; and an operation that fails
\* changes no account.
C28_NoWrappedValue ==
    [][/\ (last'.op \in {"buy_shares", "buy_multi"} /\ last'.err = "Ok") => ~last'.wide
       /\ (last'.op = "claim_multi_winnings" /\ last'.err = "Ok")
              => ~Overflows(SumYesShares(last'.before, 0, 0))
       /\ (last'.op = "add_answer" /\ last'.err = "Ok")
              => ~Overflows(last'.amount * (last'.answer_count - 1))
       /\ last'.err # "Ok" => UNCHANGED <<now, binVars, bookVars, multiVars>>]_vars

\* A claim paid the YES shares of one answer only, although the position
\* held YES shares of two whose sum is more than a u64 holds.
ClaimDroppedShares ==
    /\ last.op = "claim_multi_winnings" /\ last.err = "Ok"
    /\ Overflows(SumYesShares(last.before, 0, 0))
    /\ last.payout < SumYesShares(last.before, 0, 0)

\* A buy credited the low bits of the shares an order matched.
BuyCreditedLowBits ==
    /\ last.op = "buy_shares" /\ last.err = "Ok" /\ last.wide
    /\ last.out < last.amount

\* C29: resolve_market succeeds only when the resolver is the creator, the
\* clock has reached resolution_time and the market is unresolved, and then
\* sets resolved and the outcome; it fails with Unauthorized only for
\* another resolver, with TooEarlyToResolve only before resolution_time and
\* with MarketResolved only on a resolved market.  A resolved market stays
\* resolved with the same outcome, yes_pool and no_pool: every buy_shares,
\* sell_shares, place_order and resolve_market on it fails with
\* MarketResolved.
C29_ResolutionFinal ==
    [][/\ last'.op = "resolve_market" =>
            /\ last'.err \in {"Ok", "Unauthorized", "TooEarlyToResolve", "MarketResolved"}
            /\ last'.err = "Ok" =>
                   /\ last'.resolver = market.creator
                   /\ now >= market.resolution_time
                   /\ ~market.resolved
                   /\ market'.resolved /\ market'.outcome = last'.outcome
            /\ last'.err = "Unauthorized" => last'.resolver # market.creator
            /\ last'.err = "TooEarlyToResolve" => now < market.resolution_time
            /\ last'.err = "MarketResolved" => market.resolved
            /\ last'.err # "Ok" => market' = market
       /\ market.resolved =>
            /\ market'.resolved
            /\ market'.outcome = market.outcome
            /\ market'.yes_pool = market.yes_pool
            /\ market'.no_pool = market.no_pool
            /\ last'.op \in {"buy_shares", "sell_shares", "place_order", "resolve_market"}
                   => last'.err = "MarketResolved"]_vars

\* A market that was traded, then resolved by its creator at
\* resolution_time, refuses a further buy.
C29_Witness ==
    /\ market.resolved /\ market.total_volume > 0
    /\ now >= market.resolution_time
    /\ last.op = "buy_shares" /\ last.err = "MarketResolved"

\* C30: in every state of a MultiMarket answers_resolved is the number of
\* its answers with resolved = TRUE and at most answer_count, and the market
\* is resolved exactly when answers_resolved = answer_count.  The outcome of
\* an answer is set once, by the resolve_answer that resolves it, which
\* counts it; resolve_answer on a resolved answer fails with
\* AnswerAlreadyResolved and changes nothing.
C30_ResolvedCount ==
    /\ [](mm.initialized =>
            /\ mm.answers_resolved = Cardinality({i \in DOMAIN answers : answers[i].resolved})
            /\ mm.answers_resolved <= mm.answer_count
            /\ mm.resolved <=> (mm.answers_resolved = mm.answer_count)
            /\ \A i \in DOMAIN answers : answers[i].resolved <=> (answers[i].outcome # None))
    /\ [][/\ \A i \in DOMAIN answers :
              /\ answers[i].resolved =>
                     answers'[i].resolved /\ answers'[i].outcome = answers[i].outcome
              /\ (~answers[i].resolved /\ answers'[i].resolved) =>
                     /\ last'.op = "resolve_answer" /\ last'.err = "Ok" /\ last'.idx = i
                     /\ answers'[i].outcome = Some(last'.outcome)
                     /\ mm'.answers_resolved = mm.answers_resolved + 1
          /\ (last'.op = "resolve_answer" /\ answers[last'.idx].resolved) =>
                 /\ last'.err = "AnswerAlreadyResolved"
                 /\ UNCHANGED <<now, binVars, bookVars, multiVars>>]_vars

\* Every answer of the market is resolved, the market with them, and a
\* further resolve_answer by the creator was refused.
C30_Witness ==
    /\ mm.resolved /\ mm.answers_resolved = mm.answer_count
    /\ \A i \in DOMAIN answers : answers[i].resolved
    /\ last.op = "resolve_answer" /\ last.err = "AnswerAlreadyResolved"

-----------------------------------------------------------------------------
(* Requests that break a validation rule on a market that no longer trades *)

ZeroOr(a) == {0, a}
BadPrices == {0, 5000, 10000}

NextErrors ==
    \/ Tick
    \/ \E o \in BOOLEAN : ResolveMarket("creator", o)
    \/ \E i \in DOMAIN answers : ResolveAnswer(i, "creator", i = 0)
    \/ \E a \in ZeroOr(100) : BuyShares(TRUE, a, 0, <<>>)
    \/ \E a \in ZeroOr(100) : SellShares(TRUE, a, 0, <<>>)
    \/ \E p \in BadPrices : PlaceOrder(None, p, 50, FALSE, TRUE, <<>>)
    \/ \E a \in ZeroOr(50), c \in {<<>>, <<AnswerRef(0), AnswerRef(1)>>} : BuyMulti(mm.answer_count - 1, FALSE, a, 0, c)
    \/ \E a \in ZeroOr(50) : SellMulti(0, FALSE, a, 0, <<>>)
    \/ \E x \in {0, 1}, a \in ZeroOr(50) : ConvertPositions(x, a)

SpecErrors == InitPools /\ [][NextErrors]_vars

\* The request breaks a validation rule of its instruction.
InvalidRequest(l) ==
    \/ l.op \in {"buy_shares", "sell_shares"} /\ l.amount = 0
    \/ l.op \in {"buy_multi", "sell_multi"} /\ l.err # "Ok" /\ l.zero
    \/ l.op = "place_order" /\ l.price \notin 1..9999
    \/ l.op = "convert_positions" /\ l.flags.no_set

\* The validation error of the instruction.
ValidationError(l) ==
    IF l.op = "place_order" THEN "InvalidPrice"
    ELSE IF l.op = "convert_positions" THEN "InvalidIndexSet"
    ELSE "InvalidAmount"

\* The market the request addresses is in a state that rejects it too.
StateRejects(l) ==
    IF l.op \in {"buy_shares", "sell_shares", "place_order"} THEN market.resolved
    ELSE IF l.op = "convert_positions" THEN mm.resolved \/ ~mm.is_one_winner
    ELSE mm.resolved

\* C31: a request that breaks both a validation rule and a state precondition
\* is answered with the validation error: amount 0 on a resolved market gives
\* InvalidAmount, a price outside 1..9999 on a resolved market InvalidPrice,
\* index_set 0 on a resolved or not one-winner market InvalidIndexSet.
C31_ValidationFirst ==
    (InvalidRequest(last) /\ StateRejects(last)) => last.err = ValidationError(last)

\* Each of the instructions is seen to answer with the error of the state.
StateErrorFirst ==
    /\ InvalidRequest(last) /\ StateRejects(last)
    /\ last.err \in {"MarketResolved", "NotOneWinnerMarket"}

-----------------------------------------------------------------------------
(* Matching a buy against several resting orders *)

MatchPrices == {3000, 4000, 9000}
MatchQtys == {50}
MatchAmounts == {60}

NextMatch ==
    \/ Tick
    \/ CreateOrderbook
    \/ \E p \in MatchPrices, q \in MatchQtys, y \in BOOLEAN : PlaceOrder(None, p, q, y, FALSE, <<>>)
    \/ \E y \in BOOLEAN, c \in CandLists(orders) : PlaceOrder(None, 5000, 40, y, TRUE, c)
    \/ \E a \in MatchAmounts, c \in CandLists(orders) : BuyShares(TRUE, a, 0, c)

SpecMatch == InitBook /\ [][NextMatch]_vars

\* The instruction logged in l went through find_matching_orders.
Matched(l) == l.op \in {"place_order", "buy_shares"} /\ l.err = "Ok"

\* What the instruction logged in l asked find_matching_orders for, on the market m.
ReqIsYes(l) == IF l.op = "place_order" THEN l.is_yes ELSE l.outcome
ReqIsBuy(l) == IF l.op = "place_order" THEN l.is_bid ELSE TRUE
ReqLimit(l, m) == IF l.op = "place_order" THEN l.price ELSE CpmmPrice(m.yes_pool, m.no_pool, l.outcome)
ReqAmount(l, m) == IF l.op = "place_order" THEN l.qty ELSE l.amount - calculate_fee(l.amount, m.fee_bps)

\* The order account k, as it is in ords, is a compatible candidate of l.
Fits(l, ords, k, book, m) ==
    /\ IsOpen(ords, k)
    /\ Compatible(ords[k], book.market, None, ReqIsYes(l), ReqIsBuy(l), ReqLimit(l, m))

\* The order accounts that exist before the instruction.
Resting(ords) == {k \in DOMAIN ords : ords[k].state = "open"}

RECURSIVE AvailableTotal(_, _, _, _, _)
AvailableTotal(l, ords, S, book, m) ==
    IF S = {} THEN 0
    ELSE LET k == CHOOSE x \in S : TRUE
         IN  (IF Fits(l, ords, k, book, m) THEN ords[k].qty - ords[k].filled_qty ELSE 0)
             + AvailableTotal(l, ords, S \ {k}, book, m)

Presented(l) == {l.cands[j] : j \in 1..Len(l.cands)}

\* C33: orders are matched in price-time priority: when a buy meets
\* compatible resting orders that together have more than the requested
\* amount left, no order is filled while a compatible candidate of a
\* strictly lower price, or of the same price and created earlier, still has
\* unfilled quantity.
C33_PriceTimePriority ==
    [][(Matched(last') /\ ReqIsBuy(last')
        /\ AvailableTotal(last', orders, Presented(last'), orderbook, market) > ReqAmount(last', market))
       => \A a, b \in Presented(last') :
              (/\ Fits(last', orders, a, orderbook, market)
               /\ Fits(last', orders, b, orderbook, market)
               /\ orders'[a].filled_qty > orders[a].filled_qty
               /\ Precedes(orders, b, a, TRUE))
                  => orders'[b].filled_qty = orders'[b].qty]_vars

\* A buy filled the later of two orders of one price and left the earlier
\* one, presented after it, with quantity unfilled.
LaterOrderFilledFirst ==
    /\ last.op = "buy_shares" /\ last.err = "Ok" /\ last.cands = <<2, 1>>
    /\ orders[1].state = "open" /\ orders[2].state = "open"
    /\ orders[1].price = orders[2].price
    /\ orders[1].created_at < orders[2].created_at
    /\ orders[2].filled_qty = orders[2].qty
    /\ orders[1].filled_qty < orders[1].qty
    /\ last.filled = orders[1].filled_qty + orders[2].filled_qty

\* The order o is a resting sell order of the outcome the buy logged in l
\* asks for, on the same market and answer, at a price within the limit and
\* with quantity left.
SameOutcomeSell(l, o, book, m) ==
    /\ o.state = "open"
    /\ o.market = book.market
    /\ o.answer_index = None
    /\ o.is_yes = ReqIsYes(l)
    /\ ~o.is_bid
    /\ o.price <= ReqLimit(l, m)
    /\ o.qty > o.filled_qty

\* C34: a buy of an outcome is matched against resting sell orders of the
\* same outcome: a price-compatible YES-sell order with unfilled quantity
\* that a YES buy (place_order with is_yes and is_bid, or buy_shares with
\* outcome = true) meets as its first candidate receives a fill.
C34_BuyMeetsSameOutcomeSell ==
    [][(Matched(last') /\ ReqIsBuy(last') /\ ReqIsYes(last') /\ Len(last'.cands) > 0
        /\ SameOutcomeSell(last', orders[last'.cands[1]], orderbook, market))
       => orders'[last'.cands[1]].filled_qty > orders[last'.cands[1]].filled_qty]_vars

\* A YES buy by place_order left a YES-sell order within its limit unfilled.
YesSellPassedOver ==
    /\ last.op = "place_order" /\ last.err = "Ok" /\ last.is_yes /\ last.is_bid
    /\ last.cands = <<1>> /\ last.filled = 0
    /\ orders[1].state = "open" /\ orders[1].is_yes /\ ~orders[1].is_bid
    /\ orders[1].price <= last.price /\ orders[1].filled_qty = 0

\* A YES buy by buy_shares was filled from a NO-sell order.
YesBuyFilledFromNoSell ==
    /\ last.op = "buy_shares" /\ last.err = "Ok" /\ last.outcome /\ last.cands = <<1>>
    /\ last.filled > 0
    /\ orders[1].state = "open" /\ ~orders[1].is_yes /\ ~orders[1].is_bid
    /\ orders[1].filled_qty = last.filled

-----------------------------------------------------------------------------
(* Rebalancing the siblings of an answer *)

\* The siblings of the answer idx in the order of their indexes, the last
\* one replaced by the account x.
PaddedList(idx, x) ==
    LET sib(j) == AnswerRef(IF j <= idx THEN j - 1 ELSE j)
        n == Cardinality(DOMAIN answers) - 1
    IN  [j \in 1..n |-> IF j < n THEN sib(j) ELSE x]

\* The accounts a caller may present for a trade on the answer idx: none,
\* every sibling once, or as many accounts with the last sibling replaced by
\* the first account again, an order account or an account of somebody else.
SiblingLists(idx) ==
    {<<>>} \cup {PaddedList(idx, x) : x \in {PaddedList(idx, OtherRef)[1], OtherRef, OrderRef(1)}}
                \cup {PaddedList(idx, AnswerRef(j)) : j \in DOMAIN answers \ {idx}}

\* The market before it is traded: an order comes to rest, time passes and
\* the first answer is resolved.
Untraded == last.op \in {"init", "place_multi_order", "tick"}

\* On the market so prepared, one buy and then the sale of what it gave or a
\* rebalance, or a rebalance alone.
NextNegRisk ==
    \/ Untraded /\ Tick
    \/ last.op = "init" /\ PlaceMultiOrder(0, 5000, 50, TRUE, FALSE, <<>>)
    \/ Untraded /\ ResolveAnswer(0, "creator", TRUE)
    \/ /\ mm.volume = 0 /\ last.op # "rebalance_market"
       /\ \E i \in DOMAIN answers, o \in BOOLEAN : \E c \in SiblingLists(i) : BuyMulti(i, o, 50, 0, c)
    \/ \E i \in DOMAIN answers, o \in BOOLEAN, a \in ReceivedByLastBuy("buy_multi") : \E c \in SiblingLists(i) :
          SellMulti(i, o, a, 0, c)
    \/ /\ last.op \notin {"rebalance_market", "sell_multi"} /\ last.err = "Ok"
       /\ \E i \in DOMAIN answers : \E c \in SiblingLists(i) : RebalanceMarket(i, c)

SpecNegRisk == InitMulti /\ [][NextNegRisk]_vars

IsMultiTrade(l) == l.op \in {"buy_multi", "sell_multi"}

TradedWithoutSiblings ==
    /\ IsMultiTrade(last) /\ last.err = "Ok" /\ ~mm.is_one_winner /\ last.few

-----------------------------------------------------------------------------
(* Buying and selling back *)

\* C36: at zero fee and with no resting order, a buy of amount A followed at
\* once by the sale of all the shares it credited never pays more than A.
C36_NoGainByRoundTrip ==
    (last.op = "sell_shares" /\ last.err = "Ok" /\ last.bought_for > 0
       /\ market.fee_bps = 0 /\ last.filled = 0)
    => last.out <= last.bought_for

\* On pools of 100 each, 100 paid for NO gave 150 shares, and their sale
\* right after paid 120.
RoundTripGain ==
    /\ last.op = "sell_shares" /\ last.err = "Ok" /\ ~last.outcome
    /\ last.bought_for = 100 /\ last.amount = 150 /\ last.out = 120
    /\ market.fee_bps = 0 /\ last.filled = 0
    /\ market.total_volume = 220

-----------------------------------------------------------------------------
(* The collateral in the vault of a multi-choice market *)

\* A multi-choice market without fee whose vault holds the collateral that
\* other users have split; the trader has moved nothing into it yet.
InitVault ==
    /\ now = 0
    /\ market = NoMarket
    /\ user_position = NoPosition
    /\ orders = [k \in OrderIds |-> NoOrder]
    /\ orderbook = NoBook
    /\ \E n \in AnswerCounts, w \in BOOLEAN : mm = ConstructedMulti(n, w)
    /\ answers = ConstructedAnswers(mm)
    /\ position = NoMultiPosition
    /\ tokens = [vault |-> 2 * UserFunds, user |-> UserFunds, fee_vault |-> 0]
    /\ last = [op |-> "init", err |-> "Ok"]

NextVault ==
    \/ Tick
    \/ \E i \in DOMAIN answers, o \in BOOLEAN : \E c \in {<<>>, PaddedList(i, OtherRef)} : BuyMulti(i, o, 50, 0, c)
    \/ \E i \in DOMAIN answers, o \in BOOLEAN, a \in ReceivedByLastBuy("buy_multi") : \E c \in {<<>>, PaddedList(i, OtherRef)} :
          SellMulti(i, o, a, 0, c)
    \/ \E i \in DOMAIN answers : SplitPosition(i, 100)
    \/ \E i \in DOMAIN answers, a \in {50, 100} : MergePositions(i, a)
    \/ \E x \in {1, 3}, a \in {50} : ConvertPositions(x, a)
    \/ \E i \in DOMAIN answers \cap {mm.answers_resolved} : ResolveAnswer(i, "creator", i = 0)
    \/ ClaimMultiWinnings(TRUE)

SpecVault == InitVault /\ [][NextVault]_vars

\* C37: the vault of a multi-choice market stays solvent towards the other
\* users: whatever the trader does (buy_multi, sell_multi, split_position,
\* merge_positions, convert_positions, claims), the collateral the vault has
\* released to the trader never exceeds the collateral the trader has moved
\* into it, so the trader never holds more than at the start and the vault
\* never less than the others' collateral.
C37_VaultSolvent ==
    /\ tokens.user <= UserFunds
    /\ tokens.vault + tokens.fee_vault >= 2 * UserFunds

\* Shares that buy_multi credited were merged into collateral of the vault.
BoughtSharesMerged ==
    /\ last.op = "merge_positions" /\ last.err = "Ok"
    /\ tokens.user > UserFunds
    /\ mm.volume > 0

-----------------------------------------------------------------------------
(* Which siblings a rebalance reaches *)

Rebalances(l) == l.op \in {"buy_multi", "sell_multi", "rebalance_market"} /\ l.err = "Ok"

\* C38: on a one-winner market a buy_multi, sell_multi or rebalance_market
\* that succeeds has rebalanced every sibling of its answer: the accounts
\* presented name each of the other answers of the market, however the list
\* reached its length.
C38_EverySiblingRebalanced ==
    (Rebalances(last) /\ mm.is_one_winner) => last.valid = DOMAIN answers \ {last.idx}

\* On a market of three answers a buy went through with enough accounts
\* presented, and a sibling that was not among them kept its pools.
SiblingLeftOut ==
    /\ last.op = "buy_multi" /\ last.err = "Ok" /\ mm.is_one_winner /\ mm.answer_count = 3
    /\ ~last.few
    /\ \E j \in DOMAIN answers \ {last.idx} :
           /\ j \notin last.valid
           /\ answers[j] = ConstructedAnswers(mm)[j]
    /\ \E j \in last.valid : answers[j] # ConstructedAnswers(mm)[j]

-----------------------------------------------------------------------------
(* The pools of a resolved answer *)

\* C39: once an Answer is resolved its yes_pool and no_pool never change
\* again: a buy_multi or sell_multi on it is refused also while the market
\* is not resolved as a whole, and no rebalance rewrites it.
C39_ResolvedPoolsFrozen ==
    [][\A i \in DOMAIN answers :
           answers[i].resolved
              => /\ answers'[i].yes_pool = answers[i].yes_pool
                 /\ answers'[i].no_pool = answers[i].no_pool
                 /\ (IsMultiTrade(last') /\ last'.err = "Ok") => last'.idx # i]_vars

\* A buy went through on an answer that was resolved before.
TradedOnResolved ==
    /\ last.op = "buy_multi" /\ last.err = "Ok" /\ ~mm.resolved
    /\ answers[last.idx].resolved
    /\ answers[last.idx].volume = last.amount

\* A rebalance rewrote the pools of a resolved sibling of its anchor.
ResolvedSiblingRewritten ==
    /\ Rebalances(last) /\ ~mm.resolved
    /\ \E j \in last.valid :
           /\ answers[j].resolved
           /\ answers[j].volume = 0
           /\ <<answers[j].yes_pool, answers[j].no_pool>>
                 # <<ConstructedAnswers(mm)[j].yes_pool, ConstructedAnswers(mm)[j].no_pool>>

-----------------------------------------------------------------------------
(* Rebalancing again *)

\* The rebalance logged in l was made on a starting distribution.
FirstCall(l) ==
    /\ l.op = "rebalance_market" /\ l.err = "Ok"
    /\ \A j \in DOMAIN l.before : <<l.before[j].yes_pool, l.before[j].no_pool>> \in PoolStates

\* rebalance_market on each starting distribution, and once more after it.
NextAgain ==
    /\ last.op = "init" \/ FirstCall(last)
    /\ \E i \in DOMAIN answers, c \in AccountLists : RebalanceMarket(i, c)

SpecAgain == InitRebalance /\ [][NextAgain]_vars

\* The instruction logged in l2 repeats the rebalance logged in l1, which
\* was given every sibling once.
Repeated(l1, l2) ==
    /\ l1.op = "rebalance_market" /\ l1.err = "Ok" /\ l1.complete
    /\ l2.op = "rebalance_market" /\ l2.err = "Ok"
    /\ l2.idx = l1.idx /\ l2.accts = l1.accts

\* C40: rebalance_market is idempotent: called a second time right after the
\* first, with the same anchor and the same complete list of siblings, it
\* leaves the yes_pool and no_pool of every sibling as the first call left
\* them.
C40_RebalanceIdempotent ==
    [][Repeated(last, last') => answers' = answers]_vars

\* On a starting distribution, the second of two equal calls with
\* every sibling presented once moved a sibling's pools again.
SecondCallMoved ==
    /\ last.op = "rebalance_market" /\ last.err = "Ok" /\ last.complete
    /\ \E f \in [DOMAIN answers -> PoolStates] :
           LET first == rebalance_market(mm, [i \in DOMAIN answers |-> PoolAnswer(f[i])], last.idx, last.accts)
           IN  first.err = "Ok" /\ first.answers = last.before
    /\ answers # last.before

====
